---------------------------- MODULE Spec2Model ----------------------------
(***************************************************************************)
(* Model of the chat front end's state machines:                           *)
(*   - chatReducer of providers/ChatProvider.tsx (thinking timeline and    *)
(*     streaming state),                                                   *)
(*   - the flows of ChatPanel.tsx that drive it through timers,            *)
(*   - the stream hooks of hooks/useStreamSSE.ts.                          *)
(* Strings are sequences of one-character strings, so that concatenation   *)
(* and splitting are computed, not assumed.                                *)
(***************************************************************************)
EXTENDS Integers, Sequences, FiniteSets, TLC

VARIABLES
    thinking,    \* ChatState.thinking of the ChatProvider store
    streaming,   \* ChatState.streaming of the ChatProvider store
    last,        \* the action last dispatched to chatReducer, and what it found
    ids,         \* the step ids the callers of this run pass to the reducer
    feed,        \* a producer's chunk sequence and how much of it was delivered
    isLoading,   \* AppState.isLoading of SEFGHApp, the isLoading prop of ChatPanel
    inflight,    \* the number of sendMessage calls whose fetch has not settled
    timers,      \* ChatPanel's pending setTimeout callbacks, in creation order
    simState,    \* the StreamState of useSimulatedStream
    timeoutRef,  \* timeoutRef.current of useSimulatedStream
    simulations, \* the startSimulation calls: each one's closure and callbacks
    simMounted,  \* whether the component that uses useSimulatedStream is mounted
    sseState,    \* the StreamState of useStreamSSE
    abortControllerRef, \* abortControllerRef.current of useStreamSSE
    requests,    \* the startStream calls: each one's position and callbacks
    served,      \* how many lines the network has delivered in this behaviour
    read,        \* the read that has just returned lines, if the last step was one
    sseMounted,  \* whether the component that uses useStreamSSE is mounted
    localStorage, \* the values under ChatService's two storage keys
    clock,       \* the time new Date() returns, counted in calls that read it
    nextId,      \* how many ids Math.random() has produced
    returned,    \* what the last ChatService call returned or threw
    incremental, \* useIncrementalTyping: its state, refs and pending timer
    animation,   \* useTypingAnimation: its state, refs, timer and frame loops
    appState,    \* SEFGHApp: isLoading and canCancelLoading of its state
    calls,       \* the sendMessage calls: where each stands, and its two timers
    currentAbortControllerRef, \* currentAbortControllerRef.current of SEFGHApp
    pendingSends, \* handleSubmit timers that have yet to call sendMessage
    link,        \* the shareable_links row the share-link function serves
    handlers     \* the requests to the share-link function: each one's position

vars == <<thinking, streaming, last, ids, feed, isLoading, inflight, timers,
          simState, timeoutRef, simulations, simMounted,
          sseState, abortControllerRef, requests, served, read, sseMounted,
          localStorage, clock, nextId, returned, incremental, animation,
          appState, calls, currentAbortControllerRef, pendingSends,
          link, handlers>>

reducerVars == <<thinking, streaming, last>>
panelVars == <<isLoading, inflight, timers>>
simVars == <<simState, timeoutRef, simulations, simMounted>>
sseVars == <<sseState, abortControllerRef, requests, served, read, sseMounted>>
serviceVars == <<localStorage, clock, nextId, returned>>
typingVars == <<incremental, animation>>
appVars == <<appState, calls, currentAbortControllerRef, pendingSends>>
linkVars == <<link, handlers>>

(***************************************************************************)
(* Values                                                                  *)
(***************************************************************************)

\* JavaScript's undefined, for optional fields and optional arguments.
Undefined == "undefined"

\* The value Date.now() returns. No code path compares two timestamps, so a
\* timestamp is modelled by whether it has been recorded.
Now == "now"

\* The characters strings are made of.
Chars == {"a", " "}

\* Bound: the longest string the model passes to a handler.
MaxStrLen == 2

\* Bound: the longest streaming.content the model lets accumulate.
MaxContentLen == 3

\* Bound: how many distinct step ids the callers of one run use.
MaxIds == 2

\* Bound: the longest delta of a chunk of a producer's sequence.
MaxDeltaLen == 1

\* Bound: the longest chunk sequence a producer delivers.
MaxChunks == 3

RECURSIVE StringsUpTo(_)
StringsUpTo(n) ==
    IF n = 0 THEN {<<>>}
    ELSE LET shorter == StringsUpTo(n - 1)
         IN shorter \cup {Append(s, c) : s \in shorter, c \in Chars}

Strings == StringsUpTo(MaxStrLen)

(***************************************************************************)
(* lib/chatEvents                                                          *)
(***************************************************************************)

ThoughtStepStatus == {"pending", "active", "done", "error"}

ThoughtStepId == {"understand", "plan", "retrieve", "tool", "compose", "finalize"}

\* The ids of DEFAULT_THINKING_STEPS in their order: "tool" is not among them.
DefaultStepOrder == <<"understand", "plan", "retrieve", "compose", "finalize">>

DefaultLabel(id) ==
    CASE id = "understand" -> "Understanding request"
      [] id = "plan"       -> "Planning response"
      [] id = "retrieve"   -> "Searching knowledge"
      [] id = "compose"    -> "Composing answer"
      [] id = "finalize"   -> "Finalizing"

DEFAULT_THINKING_STEPS ==
    [i \in 1..Len(DefaultStepOrder) |->
        [id        |-> DefaultStepOrder[i],
         label     |-> DefaultLabel(DefaultStepOrder[i]),
         status    |-> "pending",
         startedAt |-> Undefined,
         endedAt   |-> Undefined]]

(***************************************************************************)
(* providers/ChatProvider: initialState and chatReducer                    *)
(***************************************************************************)

initialThinking ==
    [visible    |-> FALSE,
     canCancel  |-> FALSE,
     steps      |-> DEFAULT_THINKING_STEPS,
     activeStep |-> Undefined]

initialStreaming ==
    [isStreaming |-> FALSE,
     messageId   |-> Undefined,
     content     |-> <<>>,
     error       |-> Undefined,
     done        |-> FALSE]

initialState == [thinking |-> initialThinking, streaming |-> initialStreaming]

\* The optional fields toolName and note of a ThoughtStep are written by
\* START_STEP and FAIL_STEP and read by no code path and no property checked
\* here; the step records of the model do not carry them.

\* label || step.label: undefined and the empty string are both falsy.
LabelOr(label, old) == IF label = Undefined \/ label = "" THEN old ELSE label

SET_THINKING_VISIBLE(state, payload) ==
    [state EXCEPT !.thinking.visible = payload]

SET_CAN_CANCEL(state, payload) ==
    [state EXCEPT !.thinking.canCancel = payload]

START_STEP(state, id, label) ==
    LET steps == state.thinking.steps
        started(step) == [step EXCEPT !.status = "active",
                                      !.startedAt = Now,
                                      !.label = LabelOr(label, step.label)]
    IN [state EXCEPT !.thinking.activeStep = id,
                     !.thinking.steps =
                         [i \in DOMAIN steps |->
                             IF steps[i].id = id THEN started(steps[i]) ELSE steps[i]]]

\* A variant of COMPLETE_STEP that also clears activeStep.
COMPLETE_STEP_ClearsActive(state, id) ==
    [state EXCEPT
        !.thinking.activeStep = Undefined,
        !.thinking.steps =
            [i \in DOMAIN @ |->
                IF @[i].id = id
                THEN [@[i] EXCEPT !.status = "done", !.endedAt = Now]
                ELSE @[i]]]

COMPLETE_STEP(state, id) ==
    LET steps == state.thinking.steps
        completed(step) == [step EXCEPT !.status = "done", !.endedAt = Now]
    IN [state EXCEPT !.thinking.steps =
                         [i \in DOMAIN steps |->
                             IF steps[i].id = id THEN completed(steps[i]) ELSE steps[i]]]

FAIL_STEP(state, id) ==
    LET steps == state.thinking.steps
        failed(step) == [step EXCEPT !.status = "error", !.endedAt = Now]
    IN [state EXCEPT !.thinking.steps =
                         [i \in DOMAIN steps |->
                             IF steps[i].id = id THEN failed(steps[i]) ELSE steps[i]]]

\* A variant of RESET_THINKING that hides the timeline but keeps its steps.
RESET_THINKING_KeepsSteps(state) ==
    [state EXCEPT !.thinking.visible = FALSE,
                  !.thinking.canCancel = FALSE,
                  !.thinking.activeStep = Undefined]

RESET_THINKING(state) ==
    [state EXCEPT !.thinking = [initialThinking EXCEPT !.steps = DEFAULT_THINKING_STEPS]]

START_STREAMING(state, messageId) ==
    [state EXCEPT !.streaming = [isStreaming |-> TRUE,
                                 messageId   |-> messageId,
                                 content     |-> <<>>,
                                 error       |-> Undefined,
                                 done        |-> FALSE]]

\* An optional boolean (done?: boolean) is one of three values.
OptBool == {"true", "false", Undefined}

\* action.payload.done || false
DoneOrFalse(done) == IF done = "true" THEN TRUE ELSE FALSE

\* A variant of APPEND_CHUNK that keeps only the newest delta.
APPEND_CHUNK_Overwrites(state, chunk) ==
    [state EXCEPT !.streaming.content = chunk.delta,
                  !.streaming.done = DoneOrFalse(chunk.done),
                  !.streaming.error = chunk.error]

APPEND_CHUNK(state, chunk) ==
    [state EXCEPT !.streaming.content = state.streaming.content \o chunk.delta,
                  !.streaming.done = DoneOrFalse(chunk.done),
                  !.streaming.error = chunk.error]

FINISH_STREAMING(state) ==
    [state EXCEPT !.streaming.isStreaming = FALSE,
                  !.streaming.done = TRUE]

ERROR_STREAMING(state, message) ==
    [state EXCEPT !.streaming.isStreaming = FALSE,
                  !.streaming.error = message,
                  !.streaming.done = TRUE]

RESET_STREAMING(state) ==
    [state EXCEPT !.streaming = initialStreaming]

chatReducer(state, action) ==
    CASE action.type = "SET_THINKING_VISIBLE" -> SET_THINKING_VISIBLE(state, action.payload)
      [] action.type = "SET_CAN_CANCEL"       -> SET_CAN_CANCEL(state, action.payload)
      [] action.type = "START_STEP"           -> START_STEP(state, action.payload, action.label)
      [] action.type = "COMPLETE_STEP"        -> COMPLETE_STEP(state, action.payload)
      [] action.type = "FAIL_STEP"            -> FAIL_STEP(state, action.payload)
      [] action.type = "RESET_THINKING"       -> RESET_THINKING(state)
      [] action.type = "START_STREAMING"      -> START_STREAMING(state, action.payload)
      [] action.type = "APPEND_CHUNK"         -> APPEND_CHUNK(state, action.payload)
      [] action.type = "FINISH_STREAMING"     -> FINISH_STREAMING(state)
      [] action.type = "ERROR_STREAMING"      -> ERROR_STREAMING(state, action.payload)
      [] action.type = "RESET_STREAMING"      -> RESET_STREAMING(state)
      [] OTHER                                -> state

(***************************************************************************)
(* The store: dispatch of one action to chatReducer                        *)
(***************************************************************************)

State == [thinking |-> thinking, streaming |-> streaming]

\* The status of the step with this id, or Undefined when the timeline has none.
StatusOf(steps, id) ==
    IF \E i \in DOMAIN steps : steps[i].id = id
    THEN (CHOOSE st \in {steps[i] : i \in DOMAIN steps} : st.id = id).status
    ELSE Undefined

TimelineIds == {DefaultStepOrder[i] : i \in DOMAIN DefaultStepOrder}

ActiveIds(steps) == {steps[i].id : i \in {j \in DOMAIN steps : steps[j].status = "active"}}

StepActions == {"START_STEP", "COMPLETE_STEP", "FAIL_STEP"}

\* The step id a step action names.
TargetOf(action) ==
    IF action.type \in StepActions THEN action.payload ELSE Undefined

\* What a dispatched action found in state: the status its target step had,
\* and for RESET_THINKING the activeStep it cleared.
Found(state, action) ==
    CASE action.type \in StepActions ->
             StatusOf(state.thinking.steps, action.payload)
      [] action.type = "RESET_THINKING" -> state.thinking.activeStep
      [] OTHER -> Undefined

\* The store after the actions of one handler, dispatched in call order.
RECURSIVE ReduceAll(_, _)
ReduceAll(state, actions) ==
    IF actions = <<>> THEN state
    ELSE ReduceAll(chatReducer(state, Head(actions)), Tail(actions))

DispatchAll(actions) ==
    LET n == Len(actions)
        before == ReduceAll(State, SubSeq(actions, 1, n - 1))
        next == chatReducer(before, actions[n])
    IN /\ thinking' = next.thinking
       /\ streaming' = next.streaming
       /\ last' = [type |-> actions[n].type, id |-> TargetOf(actions[n]),
                   found |-> Found(before, actions[n])]

Dispatch(action) == DispatchAll(<<action>>)

Action(type, payload) == [type |-> type, payload |-> payload, label |-> Undefined]

(***************************************************************************)
(* The thinking actions of the context value, called in any order          *)
(***************************************************************************)

Labels == {Undefined, "", "Custom label"}

setThinkingVisible(visible) ==
    /\ Dispatch(Action("SET_THINKING_VISIBLE", visible))
    /\ UNCHANGED <<ids, feed, panelVars, simVars, sseVars, serviceVars, typingVars, appVars,
                   linkVars>>

setCanCancel(canCancel) ==
    /\ Dispatch(Action("SET_CAN_CANCEL", canCancel))
    /\ UNCHANGED <<ids, feed, panelVars, simVars, sseVars, serviceVars, typingVars, appVars,
                   linkVars>>

startStep(id, label) ==
    /\ Dispatch([type |-> "START_STEP", payload |-> id, label |-> label])
    /\ UNCHANGED <<ids, feed, panelVars, simVars, sseVars, serviceVars, typingVars, appVars,
                   linkVars>>

completeStep(id) ==
    /\ Dispatch(Action("COMPLETE_STEP", id))
    /\ UNCHANGED <<ids, feed, panelVars, simVars, sseVars, serviceVars, typingVars, appVars,
                   linkVars>>

failStep(id) ==
    /\ Dispatch(Action("FAIL_STEP", id))
    /\ UNCHANGED <<ids, feed, panelVars, simVars, sseVars, serviceVars, typingVars, appVars,
                   linkVars>>

resetThinking ==
    /\ Dispatch(Action("RESET_THINKING", Undefined))
    /\ UNCHANGED <<ids, feed, panelVars, simVars, sseVars, serviceVars, typingVars, appVars,
                   linkVars>>

\* SEFGHApp's initialState and a ChatPanel with no timer pending.
PanelIdle ==
    /\ isLoading = FALSE
    /\ inflight = 0
    /\ timers = <<>>

\* The useState initial value shared by useStreamSSE and useSimulatedStream.
initialStreamState ==
    [isStreaming |-> FALSE, error |-> Undefined, chunks |-> <<>>, content |-> <<>>]

\* useSimulatedStream as mounted: no simulation started, timeoutRef null.
SimIdle ==
    /\ simState = initialStreamState
    /\ timeoutRef = 0
    /\ simulations = <<>>
    /\ simMounted = TRUE

NoRead == [call |-> 0, lines |-> <<>>]

\* useStreamSSE as mounted: no request started, abortControllerRef null.
SseIdle ==
    /\ sseState = initialStreamState
    /\ abortControllerRef = 0
    /\ requests = <<>>
    /\ served = 0
    /\ read = NoRead
    /\ sseMounted = TRUE

\* No ChatService call yet, and nothing stored under either key.
Absent == [kind |-> "absent", value |-> <<>>]

NoCall == [op |-> "none", threw |-> FALSE, value |-> <<>>]

ServiceIdle ==
    /\ localStorage = [sessions |-> Absent, shared |-> Absent]
    /\ clock = 1
    /\ nextId = 0
    /\ returned = NoCall

\* 1000 / speed, the least time between two updates of the displayed text,
\* in ticks of the typing clock.
MinInterval == 2

\* useIncrementalTyping as mounted, animations on. since is the time since
\* lastUpdateRef, counted up to MinInterval; timer is the time left to the
\* setTimeout that timeoutRef names, -1 when it is not pending; handle tells
\* whether timeoutRef.current is set; pending counts the setTimeout
\* callbacks that have neither run nor been cleared. appended, op and cancelled record the text
\* appended since the last reset, the last call, and whether it cleared a
\* pending timer.
initialIncremental ==
    [enabled |-> TRUE, displayedText |-> <<>>, isTyping |-> FALSE,
     buffer |-> <<>>, since |-> MinInterval, timer |-> -1, handle |-> FALSE,
     pending |-> 0, appended |-> <<>>, op |-> "mount", cancelled |-> FALSE]

\* useTypingAnimation as mounted with an empty targetText. timeout tells
\* whether the 50 ms timer of the effect is pending; loops holds the
\* targetText of every pending typeNextChar frame and raf the loop that
\* rafRef.current names (0: none); elapsed is the time since startTimeRef;
\* completions counts the onComplete calls of the current run.
initialAnimation ==
    [enabled |-> TRUE, targetText |-> <<>>, displayedText |-> <<>>,
     isTyping |-> FALSE, currentIndex |-> 0, timeout |-> FALSE,
     loops |-> <<>>, raf |-> 0, elapsed |-> 0, completions |-> 0]

TypingIdle ==
    /\ incremental = initialIncremental
    /\ animation = initialAnimation

\* SEFGHApp as mounted: not loading, no request sent.
AppIdle ==
    /\ appState = [isLoading |-> FALSE, canCancelLoading |-> FALSE]
    /\ calls = <<>>
    /\ currentAbortControllerRef = 0
    /\ pendingSends = 0

\* The share-link function before any request: an active link without a
\* view limit and without views.
LinkIdle ==
    /\ link = [status |-> "active", expired |-> FALSE, max_views |-> 0,
               current_views |-> 0, analytics |-> 0]
    /\ handlers = <<>>

NoFeed == [chunks |-> <<>>, pos |-> 0]

NoAction == [type |-> "@@INIT", id |-> Undefined, found |-> Undefined]

InitThinking ==
    /\ thinking = initialThinking
    /\ streaming = initialStreaming
    /\ last = NoAction
    /\ ids \in {S \in SUBSET ThoughtStepId : Cardinality(S) = MaxIds}
    /\ feed = NoFeed
    /\ PanelIdle
    /\ SimIdle
    /\ SseIdle
    /\ ServiceIdle
    /\ TypingIdle
    /\ AppIdle
    /\ LinkIdle

NextThinking ==
    \/ \E v \in BOOLEAN : setThinkingVisible(v)
    \/ \E v \in BOOLEAN : setCanCancel(v)
    \/ \E id \in ids, label \in Labels : startStep(id, label)
    \/ \E id \in ids : completeStep(id)
    \/ \E id \in ids : failStep(id)
    \/ resetThinking

SpecThinking == InitThinking /\ [][NextThinking]_vars

(***************************************************************************)
(* The streaming actions of the context value, called in any order         *)
(***************************************************************************)

MessageIds == {"m1", "m2"}

ErrorTexts == {"Stream failed"}

\* A StreamChunk: done and error are optional.
StreamChunks(deltas) ==
    [id : MessageIds, delta : deltas, done : OptBool,
     error : {Undefined} \cup ErrorTexts]

startStreaming(messageId) ==
    /\ Dispatch(Action("START_STREAMING", messageId))
    /\ UNCHANGED <<ids, feed, panelVars, simVars, sseVars, serviceVars, typingVars, appVars,
                   linkVars>>

appendChunk(chunk) ==
    /\ Dispatch(Action("APPEND_CHUNK", chunk))
    /\ UNCHANGED <<ids, feed, panelVars, simVars, sseVars, serviceVars, typingVars, appVars,
                   linkVars>>

finishStreaming ==
    /\ Dispatch(Action("FINISH_STREAMING", Undefined))
    /\ UNCHANGED <<ids, feed, panelVars, simVars, sseVars, serviceVars, typingVars, appVars,
                   linkVars>>

errorStreaming(error) ==
    /\ Dispatch(Action("ERROR_STREAMING", error))
    /\ UNCHANGED <<ids, feed, panelVars, simVars, sseVars, serviceVars, typingVars, appVars,
                   linkVars>>

resetStreaming ==
    /\ Dispatch(Action("RESET_STREAMING", Undefined))
    /\ UNCHANGED <<ids, feed, panelVars, simVars, sseVars, serviceVars, typingVars, appVars,
                   linkVars>>

InitStreaming ==
    /\ thinking = initialThinking
    /\ streaming = initialStreaming
    /\ last = NoAction
    /\ ids = {}
    /\ feed = NoFeed
    /\ PanelIdle
    /\ SimIdle
    /\ SseIdle
    /\ ServiceIdle
    /\ TypingIdle
    /\ AppIdle
    /\ LinkIdle

NextStreaming ==
    \/ \E id \in MessageIds : startStreaming(id)
    \/ \E chunk \in StreamChunks(Strings) :
          /\ streaming.isStreaming
          /\ Len(streaming.content) + Len(chunk.delta) <= MaxContentLen
          /\ appendChunk(chunk)
    \/ finishStreaming
    \/ \E e \in ErrorTexts : errorStreaming(e)
    \/ resetStreaming

SpecStreaming == InitStreaming /\ [][NextStreaming]_vars

(***************************************************************************)
(* A consumer that keeps the contract: startStreaming(id), then appendChunk *)
(* for each chunk of a sequence with that id whose last chunk, and only    *)
(* that one, has done = true                                               *)
(***************************************************************************)

RECURSIVE SeqsUpTo(_, _)
SeqsUpTo(S, n) ==
    IF n = 0 THEN {<<>>}
    ELSE LET shorter == SeqsUpTo(S, n - 1)
         IN shorter \cup {Append(q, x) : q \in shorter, x \in S}

\* The sequences the producer may emit for message id: every chunk but the
\* last has done false or absent, the last has done = true.
ChunkSequences(id) ==
    LET deltas == StringsUpTo(MaxDeltaLen)
        body == [id : {id}, delta : deltas, done : {"false", Undefined}, error : {Undefined}]
        final == [id : {id}, delta : deltas, done : {"true"}, error : {Undefined}]
    IN {Append(q, f) : q \in SeqsUpTo(body, MaxChunks - 1), f \in final}

\* States a store can be in when a new stream starts: never used, or left
\* behind by an earlier stream that ended in an error.
PriorStreaming ==
    {initialStreaming,
     [isStreaming |-> FALSE, messageId |-> "m2", content |-> <<"a">>,
      error |-> "Stream failed", done |-> TRUE]}

feedStart ==
    /\ feed.pos = 0
    /\ Dispatch(Action("START_STREAMING", feed.chunks[1].id))
    /\ feed' = [feed EXCEPT !.pos = 1]
    /\ UNCHANGED <<ids, panelVars, simVars, sseVars, serviceVars, typingVars, appVars,
                   linkVars>>

feedAppend ==
    /\ feed.pos \in 1..Len(feed.chunks)
    /\ Dispatch(Action("APPEND_CHUNK", feed.chunks[feed.pos]))
    /\ feed' = [feed EXCEPT !.pos = feed.pos + 1]
    /\ UNCHANGED <<ids, panelVars, simVars, sseVars, serviceVars, typingVars, appVars,
                   linkVars>>

InitFeed ==
    /\ thinking = initialThinking
    /\ streaming \in PriorStreaming
    /\ last = NoAction
    /\ ids = {}
    /\ \E id \in MessageIds : \E q \in ChunkSequences(id) : feed = [chunks |-> q, pos |-> 0]
    /\ PanelIdle
    /\ SimIdle
    /\ SseIdle
    /\ ServiceIdle
    /\ TypingIdle
    /\ AppIdle
    /\ LinkIdle

NextFeed == feedStart \/ feedAppend

SpecFeed == InitFeed /\ [][NextFeed]_vars

RECURSIVE ConcatDeltas(_)
ConcatDeltas(chunks) ==
    IF chunks = <<>> THEN <<>>
    ELSE Head(chunks).delta \o ConcatDeltas(Tail(chunks))

FeedDelivered == feed.chunks # <<>> /\ feed.pos = Len(feed.chunks) + 1

\* C1: after startStreaming(id) and appendChunk of every chunk of a sequence
\* in which exactly the last chunk has done = true, streaming.content is the
\* concatenation of the deltas in emission order and streaming.done is true.
C1_ContentIsConcatenation ==
    FeedDelivered =>
        /\ streaming.content = ConcatDeltas(feed.chunks)
        /\ streaming.done = TRUE

\* C1 witness: a sequence of several chunks with different deltas has been
\* delivered over a store an earlier stream had left content in.
C1_Witness ==
    /\ FeedDelivered
    /\ Len(feed.chunks) >= 3
    /\ feed.chunks[1].delta = <<"a">>
    /\ feed.chunks[2].delta = <<" ">>
    /\ streaming.content = <<"a", " ">>
    /\ streaming.messageId = "m1"

\* C2: once streaming.done is true, content does not change and done does not
\* return to false until a resetStreaming or startStreaming.
C2_DoneIsTerminal ==
    [][(streaming.done /\ last'.type \notin {"RESET_STREAMING", "START_STREAMING"})
          => (streaming'.content = streaming.content /\ streaming'.done)]_vars

(***************************************************************************)
(* components/ChatPanel: handleSubmit, its delayed send, and the loading   *)
(* effect, over the isLoading prop that SEFGHApp's sendMessage drives.     *)
(* Time advances in ticks of 100 ms; a timer holds the ticks left to it.   *)
(***************************************************************************)

\* setTimeout(..., 200) of the loading effect, in ticks.
ResetDelay == 2

\* setTimeout(..., 500) of handleSubmit, in ticks.
SendDelay == 5

\* Bound: the longest content handed to a simulated stream.
MaxSimLen == 2

\* Bound: how many simulated streams one behaviour starts.
MaxSims == 2

\* Bound: how many network streams one behaviour starts.
MaxRequests == 2

\* Bound: how many lines the network delivers in one behaviour.
MaxLines == 3

\* Bound: how many timers may be pending at once.
MaxTimers == 3

\* Bound: how many requests may be in flight at once.
MaxInflight == 2

\* String.prototype.trim over the model's characters.
RECURSIVE TrimStart(_)
TrimStart(str) ==
    IF str # <<>> /\ Head(str) = " " THEN TrimStart(Tail(str)) ELSE str

RECURSIVE TrimEnd(_)
TrimEnd(str) ==
    IF str # <<>> /\ str[Len(str)] = " " THEN TrimEnd(SubSeq(str, 1, Len(str) - 1)) ELSE str

Trim(str) == TrimEnd(TrimStart(str))

Timer(kind, delay) == [kind |-> kind, left |-> delay]

\* The loading effect, run after a handler when one of its dependencies
\* (isLoading, thinking.visible) changed: it schedules resetThinking.
LoadingEffect(loadingAfter, visibleAfter) ==
    IF /\ <<loadingAfter, visibleAfter>> # <<isLoading, thinking.visible>>
       /\ ~loadingAfter
       /\ visibleAfter
    THEN <<Timer("reset", ResetDelay)>>
    ELSE <<>>

\* A timer whose time has come runs when no timer created before it is due.
Due(i) ==
    /\ i \in DOMAIN timers
    /\ timers[i].left = 0
    /\ \A j \in 1..(i - 1) : timers[j].left > 0

Without(i) == SubSeq(timers, 1, i - 1) \o SubSeq(timers, i + 1, Len(timers))

handleSubmit(input) ==
    /\ Trim(input) # <<>>
    /\ ~isLoading
    /\ Len(timers) + 2 <= MaxTimers
    /\ DispatchAll(<<Action("SET_THINKING_VISIBLE", TRUE),
                     [type |-> "START_STEP", payload |-> "understand",
                      label |-> "Understanding your request"]>>)
    /\ timers' = timers \o <<Timer("send", SendDelay)>>
                        \o LoadingEffect(isLoading, TRUE)
    /\ UNCHANGED <<ids, feed, isLoading, inflight, simVars, sseVars, serviceVars, typingVars, appVars,
                   linkVars>>

\* The callback of handleSubmit's timer; onSendMessage is SEFGHApp's
\* sendMessage, which sets isLoading and starts the fetch.
sendTimerFires(i) ==
    /\ Due(i)
    /\ timers[i].kind = "send"
    /\ inflight < MaxInflight
    /\ DispatchAll(<<Action("COMPLETE_STEP", "understand"),
                     [type |-> "START_STEP", payload |-> "plan",
                      label |-> "Planning response"]>>)
    /\ isLoading' = TRUE
    /\ inflight' = inflight + 1
    /\ timers' = Without(i) \o LoadingEffect(TRUE, thinking.visible)
    /\ UNCHANGED <<ids, feed, simVars, sseVars, serviceVars, typingVars, appVars,
                   linkVars>>

\* The callback of the loading effect's timer.
resetTimerFires(i) ==
    /\ Due(i)
    /\ timers[i].kind = "reset"
    /\ Dispatch(Action("RESET_THINKING", Undefined))
    /\ timers' = Without(i) \o LoadingEffect(isLoading, FALSE)
    /\ UNCHANGED <<ids, feed, isLoading, inflight, simVars, sseVars, serviceVars, typingVars, appVars,
                   linkVars>>

\* The fetch of a request settles (a response, a failure or the abort of its
\* 20 s timeout): both the try and the catch path of sendMessage end with
\* isLoading: false.
fetchSettles ==
    /\ inflight > 0
    /\ inflight' = inflight - 1
    /\ isLoading' = FALSE
    /\ timers' = timers \o LoadingEffect(FALSE, thinking.visible)
    /\ UNCHANGED <<reducerVars, ids, feed, simVars, sseVars, serviceVars, typingVars, appVars,
                   linkVars>>

\* The cancel button, shown while loading: cancelMessage aborts the fetch,
\* which then settles through the catch path, and sets isLoading: false.
cancelMessage ==
    /\ isLoading
    /\ isLoading' = FALSE
    /\ timers' = timers \o LoadingEffect(FALSE, thinking.visible)
    /\ UNCHANGED <<reducerVars, ids, feed, inflight, simVars, sseVars, serviceVars, typingVars, appVars,
                   linkVars>>

\* 100 ms pass: no timer is overdue.
tick ==
    /\ timers # <<>>
    /\ \A i \in DOMAIN timers : timers[i].left > 0
    /\ timers' = [i \in DOMAIN timers |-> [timers[i] EXCEPT !.left = @ - 1]]
    /\ UNCHANGED <<reducerVars, ids, feed, isLoading, inflight, simVars, sseVars, serviceVars, typingVars, appVars,
                   linkVars>>

InitChatPanel ==
    /\ thinking = initialThinking
    /\ streaming = initialStreaming
    /\ last = NoAction
    /\ ids = {}
    /\ feed = NoFeed
    /\ PanelIdle
    /\ SimIdle
    /\ SseIdle
    /\ ServiceIdle
    /\ TypingIdle
    /\ AppIdle
    /\ LinkIdle

NextChatPanel ==
    \/ \E input \in Strings : handleSubmit(input)
    \/ \E i \in DOMAIN timers : sendTimerFires(i)
    \/ \E i \in DOMAIN timers : resetTimerFires(i)
    \/ fetchSettles
    \/ cancelMessage
    \/ tick

SpecChatPanel == InitChatPanel /\ [][NextChatPanel]_vars

\* C3: at most one step of thinking.steps has status 'active'.
C3_AtMostOneActive == Cardinality(ActiveIds(thinking.steps)) <= 1

\* C30: from handleSubmit (whose timer is to call onSendMessage) until
\* isLoading is false again, the thinking indicator is visible.
C30_VisibleWhileLoading ==
    ((\E i \in DOMAIN timers : timers[i].kind = "send") \/ isLoading)
        => thinking.visible

Forward(from, to) ==
    \/ to = from
    \/ from = "pending" /\ to = "active"
    \/ from = "active" /\ to \in {"done", "error"}

\* C5: between two resetThinking calls a step's status only moves forward,
\* pending -> active -> done or pending -> active -> error.
C5_ForwardOnly ==
    [][last'.type # "RESET_THINKING" =>
          \A id \in TimelineIds :
              Forward(StatusOf(thinking.steps, id), StatusOf(thinking'.steps, id))]_vars

(***************************************************************************)
(* hooks/useStreamSSE: useSimulatedStream                                  *)
(* simulations[k] is the closure of the k-th startSimulation call: its     *)
(* arguments, currentIndex, whether its setTimeout is pending, and what it *)
(* has passed to onChunk (out) and when it called onComplete (completed:   *)
(* the number of chunks it had delivered at each call); alone records that *)
(* no earlier call had a timer pending when it started. timeoutRef is 0    *)
(* for null and otherwise the call whose timer was created last; the       *)
(* handle is that call's pending timer, or a timer that has already run.   *)
(***************************************************************************)

\* content.split(' '): the pieces between single spaces, empty ones included.
RECURSIVE SplitFrom(_, _)
SplitFrom(str, piece) ==
    IF str = <<>> THEN <<piece>>
    ELSE IF Head(str) = " " THEN <<piece>> \o SplitFrom(Tail(str), <<>>)
    ELSE SplitFrom(Tail(str), Append(piece, Head(str)))

Split(str) == SplitFrom(str, <<>>)

SimChunk(messageId, delta, done) ==
    [id |-> messageId, delta |-> delta, done |-> done, error |-> Undefined]

\* A variant of DeltaAt that never puts a space before a piece.
DeltaAt_Bare(words, index) == words[index]

\* The delta of the chunk for words[index] (index counts from 1 here).
DeltaAt(words, index) ==
    IF index = 1 THEN words[index] ELSE <<" ">> \o words[index]

startSimulation(content, messageId) ==
    /\ simMounted
    /\ Len(simulations) < MaxSims
    /\ simState' = [isStreaming |-> TRUE, error |-> Undefined,
                    chunks |-> <<>>, content |-> <<>>]
    /\ simulations' = Append(simulations,
                             [content |-> content, messageId |-> messageId,
                              words |-> Split(content), currentIndex |-> 0,
                              pending |-> TRUE, cleared |-> FALSE,
                              alone |-> \A j \in DOMAIN simulations :
                                            ~simulations[j].pending,
                              out |-> <<>>, completed |-> <<>>])
    /\ timeoutRef' = Len(simulations) + 1
    /\ UNCHANGED <<reducerVars, ids, feed, panelVars, simMounted, sseVars, serviceVars,
                   typingVars, appVars, linkVars>>

\* The timer of simulation k runs sendNextChunk.
sendNextChunk(k) ==
    /\ k \in DOMAIN simulations
    /\ simulations[k].pending
    /\ LET run == simulations[k]
           finalChunk == SimChunk(run.messageId, <<>>, "true")
           delta == DeltaAt(run.words, run.currentIndex + 1)
           chunk == SimChunk(run.messageId, delta, "false")
       IN IF run.currentIndex >= Len(run.words)
          THEN /\ simState' = [simState EXCEPT !.isStreaming = FALSE,
                                               !.chunks = Append(@, finalChunk)]
               /\ simulations' =
                      [simulations EXCEPT ![k].pending = FALSE,
                                          ![k].out = Append(@, finalChunk),
                                          ![k].completed = Append(@, Len(run.out) + 1)]
               /\ UNCHANGED timeoutRef
          ELSE /\ simState' = [simState EXCEPT !.chunks = Append(@, chunk),
                                               !.content = @ \o delta]
               /\ simulations' =
                      [simulations EXCEPT ![k].currentIndex = @ + 1,
                                          ![k].out = Append(@, chunk)]
               /\ timeoutRef' = k
    /\ UNCHANGED <<reducerVars, ids, feed, panelVars, simMounted, sseVars, serviceVars,
                   typingVars, appVars, linkVars>>

\* A variant of ClearTimeout that leaves the timer pending.
ClearTimeout_Keeps(handle) == simulations

\* clearTimeout(timeoutRef.current) stops the timer the handle names, if it
\* has not run yet.
ClearTimeout(handle) ==
    IF handle # 0 /\ simulations[handle].pending
    THEN [simulations EXCEPT ![handle].pending = FALSE, ![handle].cleared = TRUE]
    ELSE simulations

cancelSimulation ==
    /\ simMounted
    /\ simulations' = ClearTimeout(timeoutRef)
    /\ timeoutRef' = 0
    /\ simState' = [simState EXCEPT !.isStreaming = FALSE]
    /\ UNCHANGED <<reducerVars, ids, feed, panelVars, simMounted, sseVars, serviceVars,
                   typingVars, appVars, linkVars>>

\* reset of useSimulatedStream: cancelSimulation, then the state is cleared.
resetSimulation ==
    /\ simMounted
    /\ simulations' = ClearTimeout(timeoutRef)
    /\ timeoutRef' = 0
    /\ simState' = initialStreamState
    /\ UNCHANGED <<reducerVars, ids, feed, panelVars, simMounted, sseVars, serviceVars,
                   typingVars, appVars, linkVars>>

\* The cleanup of the unmount effect: the timer timeoutRef names is cleared.
unmountSimulation ==
    /\ simMounted
    /\ simMounted' = FALSE
    /\ simulations' = ClearTimeout(timeoutRef)
    /\ UNCHANGED <<reducerVars, ids, feed, panelVars, simState, timeoutRef, sseVars,
                   serviceVars, typingVars, appVars, linkVars>>

InitSim ==
    /\ thinking = initialThinking
    /\ streaming = initialStreaming
    /\ last = NoAction
    /\ ids = {}
    /\ feed = NoFeed
    /\ PanelIdle
    /\ SimIdle
    /\ SseIdle
    /\ ServiceIdle
    /\ TypingIdle
    /\ AppIdle
    /\ LinkIdle

\* The contents handed to startStream: any string for the first call of a
\* behaviour, one word for a call that follows another.
SimContents == IF simulations = <<>> THEN StringsUpTo(MaxSimLen) ELSE {<<"a">>}

NextSim ==
    \/ \E content \in SimContents, id \in MessageIds :
          startSimulation(content, id)
    \/ \E k \in DOMAIN simulations : sendNextChunk(k)
    \/ cancelSimulation
    \/ resetSimulation
    \/ unmountSimulation

SpecSim == InitSim /\ [][NextSim]_vars

\* The chunks an uncancelled simulation of content must deliver.
ExpectedChunks(content, messageId) ==
    LET words == Split(content)
        n == Len(words)
    IN [i \in 1..(n + 1) |->
           IF i <= n
           THEN [id |-> messageId,
                 delta |-> IF i = 1 THEN words[1] ELSE <<" ">> \o words[i],
                 done |-> "false", error |-> Undefined]
           ELSE [id |-> messageId, delta |-> <<>>, done |-> "true",
                 error |-> Undefined]]

\* Simulation k has run to its end: no timer of it is pending and none was cleared.
RanToEnd(k) ==
    /\ ~simulations[k].pending
    /\ ~simulations[k].cleared

\* C9: an uncancelled simulated stream delivers exactly n+1 chunks for the n
\* pieces of content.split(' '), all with the same id: the pieces (the first
\* bare, the others behind a space) with done = false, then an empty delta
\* with done = true; the deltas concatenate to the content, and onComplete is
\* called exactly once, after the last chunk.
C9_SimulatedStreamChunks ==
    \A k \in DOMAIN simulations :
        RanToEnd(k) =>
            LET run == simulations[k]
            IN /\ run.out = ExpectedChunks(run.content, run.messageId)
               /\ ConcatDeltas(run.out) = run.content
               /\ run.completed = <<Len(Split(run.content)) + 1>>

\* C9 witness: a simulation of a two-piece content with an empty piece has
\* run to its end.
C9_Witness ==
    \E k \in DOMAIN simulations :
        /\ RanToEnd(k)
        /\ simulations[k].content = <<"a", " ">>
        /\ Len(simulations[k].out) = 3
        /\ simulations[k].completed = <<3>>

Outstanding(sims) == {k \in DOMAIN sims : sims[k].pending}

\* C21: once a later startStream call has been made, a simulation delivers
\* no further chunk to onChunk (nor to the hook's chunks and content), and at
\* most one simulation timer is outstanding.
C21_RestartInvalidatesEarlier ==
    [][/\ \A k \in DOMAIN simulations :
              k < Len(simulations) => simulations'[k].out = simulations[k].out
       /\ Cardinality(Outstanding(simulations')) <= 1]_vars

\* C24: cancelStream on a simulated stream that never overlapped another
\* leaves no timer pending and isStreaming false; a simulation without a
\* pending timer delivers no chunk and calls no onComplete; and isStreaming
\* becomes true again only by a startStream call.
C24_CancelStopsSimulation ==
    [][/\ (cancelSimulation /\ \A k \in DOMAIN simulations : simulations[k].alone) =>
              /\ Outstanding(simulations') = {}
              /\ ~simState'.isStreaming
       /\ \A k \in DOMAIN simulations :
              ~simulations[k].pending => simulations'[k] = simulations[k]
       /\ (~simState.isStreaming /\ simState'.isStreaming) =>
              Len(simulations') > Len(simulations)]_vars

\* C24 witness: a simulation that had delivered a chunk was cancelled before
\* its end.
C24_Witness ==
    /\ Len(simulations) = 1
    /\ simulations[1].cleared
    /\ Len(simulations[1].out) = 1
    /\ simulations[1].completed = <<>>
    /\ timeoutRef = 0
    /\ simMounted
    /\ ~simState.isStreaming

\* C23: after the unmount neither hook updates its state or calls onChunk,
\* onComplete or onError.
C23_SilentAfterUnmount ==
    [][/\ ~simMounted =>
              /\ simState' = simState
              /\ \A k \in DOMAIN simulations :
                     /\ simulations'[k].out = simulations[k].out
                     /\ simulations'[k].completed = simulations[k].completed
       /\ ~sseMounted =>
              /\ sseState' = sseState
              /\ \A k \in DOMAIN requests :
                     /\ requests'[k].out = requests[k].out
                     /\ requests'[k].completed = requests[k].completed
                     /\ requests'[k].errors = requests[k].errors]_vars

(***************************************************************************)
(* hooks/useStreamSSE: useStreamSSE                                        *)
(* requests[k] is the k-th startStream call: where the async function      *)
(* stands (awaiting fetch, awaiting reader.read(), or returned), whether   *)
(* the signal of its AbortController is aborted, and what it has passed to *)
(* onChunk (out), onComplete (completed) and onError (errors).             *)
(* read records the step just taken when it was a read that returned       *)
(* lines: the call and the lines.                                          *)
(* abortControllerRef is 0 for null and otherwise the call whose           *)
(* controller it holds. A read delivers complete lines; a line is blank,   *)
(* the sentinel 'data: [DONE]', unparsable, or the JSON of a StreamChunk   *)
(* (with or without the 'data: ' prefix).                                  *)
(***************************************************************************)

SseChunks ==
    {[id |-> "m1", delta |-> <<"a">>, done |-> Undefined, error |-> Undefined],
     [id |-> "m1", delta |-> <<" ">>, done |-> "false", error |-> Undefined],
     [id |-> "m1", delta |-> <<"a">>, done |-> "true", error |-> Undefined]}

Line(kind, chunk) == [kind |-> kind, chunk |-> chunk]

NoChunk == [id |-> Undefined, delta |-> <<>>, done |-> Undefined, error |-> Undefined]

Lines ==
    {Line("blank", NoChunk), Line("[DONE]", NoChunk), Line("malformed", NoChunk)}
        \cup {Line("json", c) : c \in SseChunks}

\* The values one reader.read() can return: some complete lines.
ReadValues == SeqsUpTo(Lines, MaxLines)

\* What an awaited fetch or read can throw other than the abort: an Error
\* with a message, an Error with an empty message, a value that is no Error.
Thrown == {"Error", "ErrorNoMessage", "NotAnError"}

\* A variant of ErrorMessage without the fallback for an empty message.
ErrorMessage_NoFallback(thrown) ==
    CASE thrown = "Error"          -> "Failed to fetch"
      [] thrown = "ErrorNoMessage" -> ""
      [] thrown = "NotAnError"     -> "Unknown stream error"

\* The errorMessage of the catch block.
ErrorMessage(thrown) ==
    CASE thrown = "Error"          -> "Failed to fetch"
      [] thrown = "ErrorNoMessage" -> "Stream failed"
      [] thrown = "NotAnError"     -> "Unknown stream error"

InFlight(k) ==
    /\ k \in DOMAIN requests
    /\ requests[k].at # "returned"

\* A promise rejected by abort() runs its catch before any later task: no
\* network event is handled while an aborted call has not returned.
NoAbortPending == \A k \in DOMAIN requests : InFlight(k) => ~requests[k].aborted

\* A variant of Abort that leaves the signal as it is.
Abort_Ignored(reqs, handle, byCancel) == reqs

\* abortControllerRef.current.abort()
Abort(reqs, handle, byCancel) ==
    IF handle # 0 /\ reqs[handle].at # "returned" /\ ~reqs[handle].aborted
    THEN [reqs EXCEPT ![handle].aborted = TRUE, ![handle].cancelled = byCancel]
    ELSE reqs

startStream ==
    /\ sseMounted
    /\ Len(requests) < MaxRequests
    /\ requests' = Append(Abort(requests, abortControllerRef, FALSE),
                          [at |-> "fetch", aborted |-> FALSE, cancelled |-> FALSE,
                           out |-> <<>>, completed |-> 0, errors |-> <<>>])
    /\ abortControllerRef' = Len(requests) + 1
    /\ sseState' = [isStreaming |-> TRUE, error |-> Undefined,
                    chunks |-> <<>>, content |-> <<>>]
    /\ read' = NoRead
    /\ UNCHANGED <<reducerVars, ids, feed, panelVars, simVars, served, sseMounted,
                   serviceVars, typingVars, appVars, linkVars>>

\* The catch block for an error that is not the abort.
Fails(k, message) ==
    /\ sseState' = [sseState EXCEPT !.isStreaming = FALSE, !.error = message]
    /\ requests' = [requests EXCEPT ![k].at = "returned",
                                    ![k].errors = Append(@, message)]

\* The stream ends: setState(isStreaming: false), onComplete(), return.
Completes(k, state, out) ==
    /\ sseState' = [state EXCEPT !.isStreaming = FALSE]
    /\ requests' = [requests EXCEPT ![k].at = "returned",
                                    ![k].out = out,
                                    ![k].completed = @ + 1]

\* await fetch(...) returns a response: not ok and a missing body throw.
fetchResolves(k, response) ==
    /\ InFlight(k) /\ requests[k].at = "fetch"
    /\ NoAbortPending
    /\ CASE response = "ok" ->
               /\ requests' = [requests EXCEPT ![k].at = "read"]
               /\ UNCHANGED sseState
         [] response = "not ok" -> Fails(k, "HTTP error! status")
         [] response = "no body" -> Fails(k, "Response body is not readable")
    /\ read' = NoRead
    /\ UNCHANGED <<reducerVars, ids, feed, panelVars, simVars, abortControllerRef, served, sseMounted,
                   serviceVars, typingVars, appVars, linkVars>>

\* await fetch(...) or await reader.read() rejects with something else than
\* the abort.
awaitRejects(k, thrown) ==
    /\ InFlight(k)
    /\ NoAbortPending
    /\ Fails(k, ErrorMessage(thrown))
    /\ read' = NoRead
    /\ UNCHANGED <<reducerVars, ids, feed, panelVars, simVars, abortControllerRef, served, sseMounted,
                   serviceVars, typingVars, appVars, linkVars>>

\* A variant of abortRejects that reports the abort like any other error.
abortRejects_Reported(k) ==
    /\ InFlight(k) /\ requests[k].aborted
    /\ Fails(k, "The operation was aborted")
    /\ read' = NoRead
    /\ UNCHANGED <<reducerVars, ids, feed, panelVars, simVars, abortControllerRef, served, sseMounted,
                   serviceVars, typingVars, appVars, linkVars>>

\* The signal was aborted: the awaited promise rejects with an AbortError.
abortRejects(k) ==
    /\ InFlight(k) /\ requests[k].aborted
    /\ sseState' = [sseState EXCEPT !.isStreaming = FALSE]
    /\ requests' = [requests EXCEPT ![k].at = "returned"]
    /\ read' = NoRead
    /\ UNCHANGED <<reducerVars, ids, feed, panelVars, simVars, abortControllerRef, served, sseMounted,
                   serviceVars, typingVars, appVars, linkVars>>

\* A variant of LineLoop that gives up the rest of a read at a line it cannot
\* parse.
RECURSIVE LineLoop_StopsAtMalformed(_, _, _)
LineLoop_StopsAtMalformed(lines, state, out) ==
    IF lines = <<>> THEN [state |-> state, out |-> out, ended |-> FALSE]
    ELSE LET line == Head(lines)
             data == line.chunk
             appended == [state EXCEPT !.chunks = Append(@, data),
                                       !.content = @ \o data.delta]
         IN CASE line.kind = "blank" -> LineLoop_StopsAtMalformed(Tail(lines), state, out)
              [] line.kind = "malformed" -> [state |-> state, out |-> out, ended |-> FALSE]
              [] line.kind = "[DONE]" -> [state |-> state, out |-> out, ended |-> TRUE]
              [] line.kind = "json" ->
                    IF data.done = "true"
                    THEN [state |-> appended, out |-> Append(out, data), ended |-> TRUE]
                    ELSE LineLoop_StopsAtMalformed(Tail(lines), appended, Append(out, data))

\* The for loop over the lines of one read: the hook state and the chunks
\* passed to onChunk after the lines, and whether a line ended the stream.
RECURSIVE LineLoop(_, _, _)
LineLoop(lines, state, out) ==
    IF lines = <<>> THEN [state |-> state, out |-> out, ended |-> FALSE]
    ELSE LET line == Head(lines)
             data == line.chunk
             appended == [state EXCEPT !.chunks = Append(@, data),
                                       !.content = @ \o data.delta]
         IN CASE line.kind = "blank" -> LineLoop(Tail(lines), state, out)
              [] line.kind = "malformed" -> LineLoop(Tail(lines), state, out)
              [] line.kind = "[DONE]" -> [state |-> state, out |-> out, ended |-> TRUE]
              [] line.kind = "json" ->
                    IF data.done = "true"
                    THEN [state |-> appended, out |-> Append(out, data), ended |-> TRUE]
                    ELSE LineLoop(Tail(lines), appended, Append(out, data))

\* await reader.read() returns a value holding some complete lines.
readResolves(k) ==
    /\ InFlight(k) /\ requests[k].at = "read"
    /\ NoAbortPending
    /\ \E lines \in ReadValues :
          /\ served + Len(lines) <= MaxLines
          /\ served' = served + Len(lines)
          /\ read' = [call |-> k, lines |-> lines]
          /\ LET loop == LineLoop(lines, sseState, requests[k].out)
             IN IF loop.ended
                THEN Completes(k, loop.state, loop.out)
                ELSE /\ sseState' = loop.state
                     /\ requests' = [requests EXCEPT ![k].out = loop.out]
    /\ UNCHANGED <<reducerVars, ids, feed, panelVars, simVars, abortControllerRef, sseMounted,
                   serviceVars, typingVars, appVars, linkVars>>

\* await reader.read() returns done: the body has ended.
readDone(k) ==
    /\ InFlight(k) /\ requests[k].at = "read"
    /\ NoAbortPending
    /\ Completes(k, sseState, requests[k].out)
    /\ read' = NoRead
    /\ UNCHANGED <<reducerVars, ids, feed, panelVars, simVars, abortControllerRef, served, sseMounted,
                   serviceVars, typingVars, appVars, linkVars>>

\* cancelStream, called from a task of its own (an event handler); no caller
\* in the repository calls it from inside onChunk, onComplete or onError.
cancelStream ==
    /\ sseMounted
    /\ abortControllerRef # 0
    /\ requests' = Abort(requests, abortControllerRef, TRUE)
    /\ sseState' = [sseState EXCEPT !.isStreaming = FALSE]
    /\ read' = NoRead
    /\ UNCHANGED <<reducerVars, ids, feed, panelVars, simVars, abortControllerRef, served, sseMounted,
                   serviceVars, typingVars, appVars, linkVars>>

\* reset of useStreamSSE: cancelStream, then the state is cleared.
resetStream ==
    /\ sseMounted
    /\ requests' = Abort(requests, abortControllerRef, TRUE)
    /\ sseState' = initialStreamState
    /\ read' = NoRead
    /\ UNCHANGED <<reducerVars, ids, feed, panelVars, simVars, abortControllerRef, served, sseMounted,
                   serviceVars, typingVars, appVars, linkVars>>

\* The cleanup of the unmount effect: the controller in abortControllerRef
\* is aborted.
unmountStream ==
    /\ sseMounted
    /\ sseMounted' = FALSE
    /\ requests' = Abort(requests, abortControllerRef, FALSE)
    /\ read' = NoRead
    /\ UNCHANGED <<reducerVars, ids, feed, panelVars, simVars, sseState, abortControllerRef,
                   served, serviceVars, typingVars, appVars, linkVars>>

InitSse ==
    /\ thinking = initialThinking
    /\ streaming = initialStreaming
    /\ last = NoAction
    /\ ids = {}
    /\ feed = NoFeed
    /\ PanelIdle
    /\ SimIdle
    /\ SseIdle
    /\ ServiceIdle
    /\ TypingIdle
    /\ AppIdle
    /\ LinkIdle

NextSse ==
    \/ startStream
    \/ \E k \in DOMAIN requests, r \in {"ok", "not ok", "no body"} : fetchResolves(k, r)
    \/ \E k \in DOMAIN requests, t \in Thrown : awaitRejects(k, t)
    \/ \E k \in DOMAIN requests : abortRejects(k)
    \/ \E k \in DOMAIN requests : readResolves(k)
    \/ \E k \in DOMAIN requests : readDone(k)
    \/ cancelStream
    \/ resetStream
    \/ unmountStream

SpecSse == InitSse /\ [][NextSse]_vars

\* C22: a startStream call leaves every earlier request aborted or returned;
\* a request that a later call has followed passes no chunk to onChunk, and
\* the hook's chunks are those of the latest call, or none.
C22_RestartAbortsEarlier ==
    [][/\ Len(requests') > Len(requests) =>
              \A k \in DOMAIN requests :
                  requests'[k].at = "returned" \/ requests'[k].aborted
       /\ \A k \in DOMAIN requests :
              k < Len(requests) => requests'[k].out = requests[k].out
       /\ Len(requests') > 0 =>
              sseState'.chunks \in {<<>>, requests'[Len(requests')].out}]_vars

\* C22 witness: a second call was made while the first, which had delivered
\* a chunk, was awaiting a read; the first has returned and the second has
\* delivered a chunk.
C22_Witness ==
    /\ Len(requests) = 2
    /\ requests[1].at = "returned"
    /\ requests[1].aborted
    /\ ~requests[1].cancelled
    /\ Len(requests[1].out) = 1
    /\ Len(requests[2].out) = 1
    /\ sseState.chunks = requests[2].out

\* C27: while the request of the latest startStream call is in flight and
\* not aborted, isStreaming is true.
C27_StreamingWhileInFlight ==
    \A k \in DOMAIN requests :
        (k = Len(requests) /\ InFlight(k) /\ ~requests[k].aborted) =>
            sseState.isStreaming

\* C10: when cancelStream is called while a request is in flight, the hook
\* ends with isStreaming = false and error unset, and neither onError nor
\* onComplete is invoked for that stream.
C10_CancelIsSilent ==
    [][\A k \in DOMAIN requests' :
          requests'[k].cancelled =>
              /\ requests'[k].completed = 0
              /\ requests'[k].errors = <<>>
              /\ (k \in DOMAIN requests /\ InFlight(k) /\ requests'[k].at = "returned")
                    => (sseState'.isStreaming = FALSE /\ sseState'.error = Undefined)]_vars

\* C10 witness: a stream that had delivered a chunk was cancelled while it
\* awaited the next read, and its call has returned.
C10_Witness ==
    \E k \in DOMAIN requests :
        /\ requests[k].cancelled
        /\ requests[k].at = "returned"
        /\ requests[k].out # <<>>
        /\ sseState.isStreaming = FALSE
        /\ sseState.error = Undefined

\* The step is a failure of call k other than the abort.
FailureOf(k) ==
    \/ fetchResolves(k, "not ok")
    \/ fetchResolves(k, "no body")
    \/ \E thrown \in Thrown : awaitRejects(k, thrown)

\* C11: when a network stream fails for a reason other than the abort (a
\* response that is not ok, a body that cannot be read, a fetch or read that
\* rejects), the hook is left with isStreaming = false and a non-empty
\* error, onError has been called exactly once with it, and onComplete is
\* never called for that stream.
C11_FailureIsReported ==
    [][(\A k \in DOMAIN requests :
           FailureOf(k) =>
               /\ sseState'.isStreaming = FALSE
               /\ sseState'.error \notin {Undefined, ""}
               /\ requests'[k].errors = <<sseState'.error>>
               /\ requests'[k].at = "returned")
       /\ (\A j \in DOMAIN requests' :
              requests'[j].errors # <<>> =>
                  /\ Len(requests'[j].errors) = 1
                  /\ requests'[j].completed = 0)]_vars

\* C11 witness: a stream that had delivered a chunk failed on a later read
\* with an Error that carries no message.
C11_Witness ==
    \E k \in DOMAIN requests :
        /\ requests[k].at = "returned"
        /\ requests[k].out # <<>>
        /\ requests[k].errors = <<"Stream failed">>
        /\ sseState.error = "Stream failed"
        /\ ~sseState.isStreaming

\* The lines of a read that end the stream: the sentinel and a chunk that
\* is done.
EndsStream(line) ==
    \/ line.kind = "[DONE]"
    \/ line.kind = "json" /\ line.chunk.done = "true"

\* The chunks that lines which can all be parsed deliver: those of the JSON
\* lines up to the first line that ends the stream.
ChunksOf(lines) ==
    LET ends == {i \in DOMAIN lines : EndsStream(lines[i])}
        upto == IF ends = {} THEN Len(lines)
                ELSE CHOOSE i \in ends : \A j \in ends : i <= j
        json(line) == line.kind = "json"
    IN [i \in DOMAIN SelectSeq(SubSeq(lines, 1, upto), json) |->
           SelectSeq(SubSeq(lines, 1, upto), json)[i].chunk]

Parsable(lines) ==
    LET parses(line) == line.kind # "malformed"
    IN SelectSeq(lines, parses)

\* C12: a complete line that cannot be parsed is skipped without ending the
\* stream: a read delivers to onChunk, and appends to chunks and content,
\* exactly what its lines without the unparsable ones deliver, in order; it
\* sets no error and calls no onError.
C12_MalformedLineSkipped ==
    [][\A k \in DOMAIN requests :
          read'.call = k =>
              LET lines == read'.lines
                  delivered == ChunksOf(Parsable(lines))
              IN /\ requests'[k].out = requests[k].out \o delivered
                 /\ sseState'.chunks = sseState.chunks \o delivered
                 /\ sseState'.content = sseState.content \o ConcatDeltas(delivered)
                 /\ sseState'.error = sseState.error
                 /\ requests'[k].errors = requests[k].errors
                 /\ (requests'[k].at = "returned") =
                        (\E i \in DOMAIN lines : EndsStream(lines[i]))]_vars

\* C12 witness: a read returned an unparsable line followed by two valid
\* lines, and both chunks were delivered in order, the stream still open.
C12_Witness ==
    \E k \in DOMAIN requests :
        /\ read.call = k
        /\ Len(read.lines) = 3
        /\ read.lines[1].kind = "malformed"
        /\ Len(requests[k].out) = 2
        /\ requests[k].out[1].delta = <<"a">>
        /\ requests[k].out[2].delta = <<" ">>
        /\ requests[k].at = "read"
        /\ sseState.content = <<"a", " ">>
        /\ sseState.error = Undefined

(***************************************************************************)
(* ChatService: the chat sessions and share snapshots kept in localStorage *)
(* A string is the sequence of its characters. localStorage holds, under   *)
(* each key, nothing, a text that getChatSessions cannot read, or the JSON *)
(* of a value. Math.random() ids are taken to be fresh: nextId counts      *)
(* them. new Date() is the clock, which advances with every call that      *)
(* reads it.                                                               *)
(***************************************************************************)

\* firstUserMessage.content.slice(0, 50)
TitleLimit == 50

\* lastMessage.content.slice(0, 100)
LastMessageLimit == 100

\* btoa(content).slice(0, 16): sixteen base64 characters encode the first
\* twelve characters of content, and a shorter content in full (its padding
\* tells its length).
HashPrefix == 12

\* Bound: how many times one behaviour calls saveChatSession.
MaxSaves == 3

\* Bound: how many share snapshots one behaviour creates.
MaxShares == 2

Min(a, b) == IF a <= b THEN a ELSE b

\* str.slice(0, n)
Slice(str, n) == SubSeq(str, 1, Min(n, Len(str)))

Repeat(char, n) == [i \in 1..n |-> char]

Ellipsis == <<".", ".", ".">>

\* A character beyond U+00FF, which btoa rejects.
NonLatin1 == "U+263A"

Whitespace == {" ", "\n"}

MessageTypes == {"user", "assistant"}

TypeName(type) ==
    IF type = "user" THEN <<"u", "s", "e", "r">>
    ELSE <<"a", "s", "s", "i", "s", "t", "a", "n", "t">>

Message(id, type, content) == [id |-> id, type |-> type, content |-> content]

\* The contents of the messages saved: a short one, two that agree on their
\* first seven characters, one longer than lastMessage keeps, and one that
\* btoa cannot encode.
Contents ==
    {<<"a">>,
     Repeat("a", HashPrefix - 5) \o <<"a">>,
     Repeat("a", HashPrefix - 5) \o <<"b">>,
     Repeat("b", LastMessageLimit + 1),
     <<"a", NonLatin1>>}

\* The message lists handed to saveChatSession: the empty list, a user
\* message of each content, the short one again under another message id,
\* and the short one followed by an answer.
MessageLists ==
    {<<>>, <<Message("m2", "user", <<"a">>)>>}
        \cup {<<Message("m1", "user", content)>> : content \in Contents}
        \cup {<<Message("m1", "user", <<"a">>), Message("m2", "assistant", content)>> :
                 content \in {<<"a">>, Repeat("b", LastMessageLimit + 1)}}

\* The message lists of the sessions that are shared.
SharedLists ==
    {<<Message("m1", "user", <<"a">>)>>,
     <<Message("m2", "user", <<"a">>)>>,
     <<Message("m1", "user", <<"a">>), Message("m2", "assistant", <<"a">>)>>}

\* String.prototype.trim over the characters of the model.
RECURSIVE TrimWhitespace(_)
TrimWhitespace(str) ==
    IF str = <<>> THEN str
    ELSE IF Head(str) \in Whitespace THEN TrimWhitespace(Tail(str))
    ELSE IF str[Len(str)] \in Whitespace
         THEN TrimWhitespace(SubSeq(str, 1, Len(str) - 1))
    ELSE str

\* str.replace(/\s+/g, ' '): every run of whitespace becomes one space.
RECURSIVE CollapseWhitespace(_)
CollapseWhitespace(str) ==
    IF str = <<>> THEN <<>>
    ELSE IF Head(str) \in Whitespace
         THEN IF Len(str) > 1 /\ str[2] \in Whitespace
              THEN CollapseWhitespace(Tail(str))
              ELSE <<" ">> \o CollapseWhitespace(Tail(str))
    ELSE <<Head(str)>> \o CollapseWhitespace(Tail(str))

NewChat == <<"N", "e", "w", " ", "C", "h", "a", "t">>

\* A variant of generateChatTitle that keeps the whole first user message.
generateChatTitle_Unsliced(messages) ==
    LET users == {i \in DOMAIN messages : messages[i].type = "user"}
    IN IF users = {} THEN NewChat
       ELSE LET content == messages[CHOOSE i \in users : \A j \in users : i <= j].content
                title == CollapseWhitespace(
                             IF Len(content) > TitleLimit
                             THEN TrimWhitespace(content) \o Ellipsis
                             ELSE TrimWhitespace(content))
            IN IF title = <<>> THEN NewChat ELSE title

generateChatTitle(messages) ==
    LET users == {i \in DOMAIN messages : messages[i].type = "user"}
    IN IF users = {} THEN NewChat
       ELSE LET content == messages[CHOOSE i \in users : \A j \in users : i <= j].content
                sliced == TrimWhitespace(Slice(content, TitleLimit))
                title == CollapseWhitespace(
                             IF Len(content) > TitleLimit THEN sliced \o Ellipsis
                             ELSE sliced)
            IN IF title = <<>> THEN NewChat ELSE title

\* messages.map(msg => `${msg.type}:${msg.content}`).join('|')
RECURSIVE JoinPairs(_)
JoinPairs(messages) ==
    IF messages = <<>> THEN <<>>
    ELSE LET first == TypeName(messages[1].type) \o <<":">> \o messages[1].content
         IN IF Len(messages) = 1 THEN first
            ELSE first \o <<"|">> \o JoinPairs(Tail(messages))

\* btoa throws an InvalidCharacterError on a character beyond U+00FF.
BtoaThrows(str) == \E i \in DOMAIN str : str[i] = NonLatin1

generateContentHash(messages) == Slice(JoinPairs(messages), HashPrefix)

\* lastMessage.content.slice(0, 100) + (length > 100 ? '...' : '')
LastMessageOf(messages) ==
    LET content == messages[Len(messages)].content
    IN Slice(content, LastMessageLimit)
           \o (IF Len(content) > LastMessageLimit THEN Ellipsis ELSE <<>>)

\* JSON.stringify of a value, and the texts getChatSessions cannot read:
\* the empty text, a text that is no JSON, the JSON of something that is no
\* array, the JSON of an array with an element that has no messages array.
Stringify(value) == [kind |-> "json", value |-> value]

Unreadable == {"empty", "invalid json", "not an array", "no messages"}

\* JSON.parse(stored) and the map over its sessions, which revives their
\* dates: what it yields, or that it threw.
ParseSessions(stored) ==
    IF stored.kind = "json"
    THEN [threw |-> FALSE, value |-> stored.value]
    ELSE [threw |-> TRUE, value |-> <<>>]

\* A variant of StoredSessions that returns what the map had built when it
\* threw.
StoredSessions_Partial(stored) ==
    IF stored.kind = "no messages"
    THEN <<[id |-> 0, title |-> <<>>, lastMessage |-> <<>>, timestamp |-> 0,
            messageCount |-> 0, messages |-> <<>>]>>
    ELSE ParseSessions(stored).value

\* The body of getChatSessions: [] when nothing is stored (also for the
\* empty text, which is falsy) or when reading it throws.
StoredSessions(stored) ==
    IF stored.kind \in {"absent", "empty"} THEN <<>>
    ELSE IF ParseSessions(stored).threw THEN <<>>
    ELSE ParseSessions(stored).value

\* The body of getSharedChats: the stored map, or {} when nothing is stored.
StoredShares(stored) ==
    IF stored.kind = "json" THEN stored.value ELSE <<>>

Returns(op, value) == [op |-> op, threw |-> FALSE, value |-> value]

Throws(op) == [op |-> op, threw |-> TRUE, value |-> <<>>]

\* A variant of Matching that finds no stored session.
Matching_None(sessions, contentHash) == {}

\* sessions.find(session => generateContentHash(session.messages) === contentHash)
Matching(sessions, contentHash) ==
    {i \in DOMAIN sessions : generateContentHash(sessions[i].messages) = contentHash}

First(indices) == CHOOSE i \in indices : \A j \in indices : i <= j

saveChatSession(messages) ==
    /\ clock <= MaxSaves
    /\ LET sessions == StoredSessions(localStorage.sessions)
           contentHash == generateContentHash(messages)
           found == Matching(sessions, contentHash)
           existing == sessions[First(found)]
           updated == [existing EXCEPT !.timestamp = clock,
                                       !.messageCount = Len(messages),
                                       !.messages = messages,
                                       !.lastMessage = LastMessageOf(messages)]
           session == [id |-> nextId + 1,
                       title |-> generateChatTitle(messages),
                       lastMessage |-> LastMessageOf(messages),
                       timestamp |-> clock,
                       messageCount |-> Len(messages),
                       messages |-> messages]
       IN IF messages = <<>> \/ BtoaThrows(JoinPairs(messages))
          THEN /\ returned' = Throws("saveChatSession")
               /\ UNCHANGED <<localStorage, nextId>>
          ELSE IF found # {}
          THEN /\ localStorage' =
                      [localStorage EXCEPT
                          !.sessions = Stringify([sessions EXCEPT ![First(found)] = updated])]
               /\ returned' = Returns("saveChatSession", <<updated>>)
               /\ UNCHANGED nextId
          ELSE /\ localStorage' =
                      [localStorage EXCEPT !.sessions = Stringify(<<session>> \o sessions)]
               /\ returned' = Returns("saveChatSession", <<session>>)
               /\ nextId' = nextId + 1
    /\ clock' = clock + 1
    /\ UNCHANGED <<reducerVars, ids, feed, panelVars, simVars, sseVars, typingVars, appVars,
                   linkVars>>

getChatSessions ==
    /\ returned' = Returns("getChatSessions", StoredSessions(localStorage.sessions))
    /\ UNCHANGED <<reducerVars, ids, feed, panelVars, simVars, sseVars,
                   localStorage, clock, nextId, typingVars, appVars, linkVars>>

deleteChatSession(sessionId) ==
    /\ LET sessions == StoredSessions(localStorage.sessions)
           kept(session) == session.id # sessionId
       IN localStorage' = [localStorage EXCEPT
                              !.sessions = Stringify(SelectSeq(sessions, kept))]
    /\ returned' = Returns("deleteChatSession", <<>>)
    /\ UNCHANGED <<reducerVars, ids, feed, panelVars, simVars, sseVars, clock, nextId, typingVars, appVars,
                   linkVars>>

\* The snapshot createShareableLink stores, as getSharedChat gives it back.
ShareData(id, session) ==
    [id |-> id, title |-> session.title, messages |-> session.messages,
     timestamp |-> session.timestamp, isPublic |-> TRUE]

\* A variant of createShareableLink that keeps only the newest snapshot.
createShareableLink_Replaces(session) ==
    /\ LET sharedChats == StoredShares(localStorage.shared)
       IN /\ Len(sharedChats) < MaxShares
          /\ localStorage' =
                 [localStorage EXCEPT
                     !.shared = Stringify(<<ShareData(nextId + 1, session)>>)]
    /\ nextId' = nextId + 1
    /\ returned' = Returns("createShareableLink", <<nextId + 1>>)
    /\ UNCHANGED <<reducerVars, ids, feed, panelVars, simVars, sseVars, clock, typingVars, appVars,
                   linkVars>>

createShareableLink(session) ==
    /\ LET sharedChats == StoredShares(localStorage.shared)
       IN /\ Len(sharedChats) < MaxShares
          /\ localStorage' =
                 [localStorage EXCEPT
                     !.shared = Stringify(Append(sharedChats,
                                                 ShareData(nextId + 1, session)))]
    /\ nextId' = nextId + 1
    /\ returned' = Returns("createShareableLink", <<nextId + 1>>)
    /\ UNCHANGED <<reducerVars, ids, feed, panelVars, simVars, sseVars, clock, typingVars, appVars,
                   linkVars>>

\* sharedChats[shareId]
Lookup(sharedChats, shareId) ==
    LET found(data) == data.id = shareId
    IN SelectSeq(sharedChats, found)

getSharedChat(shareId) ==
    /\ returned' = Returns("getSharedChat",
                           Lookup(StoredShares(localStorage.shared), shareId))
    /\ UNCHANGED <<reducerVars, ids, feed, panelVars, simVars, sseVars,
                   localStorage, clock, nextId, typingVars, appVars, linkVars>>

\* The session ChatPanel builds from the messages on screen to share them.
TempSession(messages) ==
    [id |-> 0,
     title |-> generateChatTitle(messages),
     lastMessage |-> Slice(messages[Len(messages)].content, LastMessageLimit),
     timestamp |-> clock,
     messageCount |-> Len(messages),
     messages |-> messages]

StoredIds == {StoredSessions(localStorage.sessions)[i].id :
                 i \in DOMAIN StoredSessions(localStorage.sessions)}

InitService ==
    /\ thinking = initialThinking
    /\ streaming = initialStreaming
    /\ last = NoAction
    /\ ids = {}
    /\ feed = NoFeed
    /\ PanelIdle
    /\ SimIdle
    /\ SseIdle
    /\ localStorage \in [sessions : {Absent} \cup {[kind |-> k, value |-> <<>>] : k \in Unreadable},
                         shared : {Absent}]
    /\ clock = 1
    /\ nextId = 0
    /\ returned = NoCall
    /\ TypingIdle
    /\ AppIdle
    /\ LinkIdle

NextService ==
    \/ \E messages \in MessageLists : saveChatSession(messages)
    \/ getChatSessions
    \/ \E sessionId \in StoredIds \cup {0} : deleteChatSession(sessionId)

SpecService == InitService /\ [][NextService]_vars

\* Sessions are saved, deleted and shared, and share links are opened.
NextShare ==
    \/ \E messages \in SharedLists : saveChatSession(messages)
    \/ \E sessionId \in StoredIds : deleteChatSession(sessionId)
    \/ \E i \in DOMAIN StoredSessions(localStorage.sessions) :
          createShareableLink(StoredSessions(localStorage.sessions)[i])
    \/ \E messages \in SharedLists : createShareableLink(TempSession(messages))
    \/ \E shareId \in 1..nextId : getSharedChat(shareId)

SpecShare == InitService /\ [][NextShare]_vars

\* The sequence of (type, content) pairs of a message list.
Pairs(messages) ==
    [i \in DOMAIN messages |-> <<messages[i].type, messages[i].content>>]

\* C13: saving a message list whose (type, content) pairs equal those of a
\* stored session does not add a session: that session keeps its id and its
\* position, and its messages, messageCount, lastMessage and timestamp are
\* those of the save.
C13_ResaveUpdatesInPlace ==
    [][\A messages \in MessageLists :
          saveChatSession(messages) =>
              LET before == StoredSessions(localStorage.sessions)
                  after == StoredSessions(localStorage'.sessions)
              IN \A i \in DOMAIN before :
                    Pairs(before[i].messages) = Pairs(messages) =>
                        /\ Len(after) = Len(before)
                        /\ after[i].id = before[i].id
                        /\ after[i].messages = messages
                        /\ after[i].messageCount = Len(messages)
                        /\ after[i].lastMessage = LastMessageOf(messages)
                        /\ after[i].timestamp = clock
                        /\ returned' = Returns("saveChatSession", <<after[i]>>)]_vars

\* C13 witness: of two stored sessions the older one, second in the list,
\* has been saved again with the same pairs under another message id.
C13_Witness ==
    LET sessions == StoredSessions(localStorage.sessions)
    IN /\ Len(sessions) = 2
       /\ nextId = 2
       /\ sessions[2].id = 1
       /\ sessions[2].timestamp > sessions[1].timestamp
       /\ sessions[2].messages = <<Message("m2", "user", <<"a">>)>>
       /\ returned.op = "saveChatSession"
       /\ returned.value = <<sessions[2]>>

\* C26: a save that returns, of a list whose (type, content) pairs differ
\* from those of every stored session, adds one session at the front and
\* leaves the stored sessions as they were.
C26_SaveNeverOverwrites ==
    [][\A messages \in MessageLists :
          saveChatSession(messages) =>
              LET before == StoredSessions(localStorage.sessions)
                  after == StoredSessions(localStorage'.sessions)
              IN (/\ ~returned'.threw
                  /\ \A i \in DOMAIN before :
                         Pairs(before[i].messages) # Pairs(messages)) =>
                     /\ Len(after) = Len(before) + 1
                     /\ Tail(after) = before]_vars

\* C19: getChatSessions never throws; when the stored value is absent or
\* cannot be read as a list of sessions it returns the empty list, and it
\* leaves the storage as it is.
C19_UnreadableYieldsEmpty ==
    [][getChatSessions =>
          /\ ~returned'.threw
          /\ localStorage' = localStorage
          /\ localStorage.sessions.kind # "json" => returned'.value = <<>>
          /\ localStorage.sessions.kind = "json" =>
                returned'.value = localStorage.sessions.value]_vars

\* C19 witness: getChatSessions has returned [] although an array is stored,
\* one whose element has no messages.
C19_Witness ==
    /\ returned.op = "getChatSessions"
    /\ returned.value = <<>>
    /\ localStorage.sessions.kind = "no messages"

TitleAndMessages(shares) ==
    [i \in DOMAIN shares |->
        [id |-> shares[i].id, title |-> shares[i].title, messages |-> shares[i].messages]]

\* C20: a share snapshot is immutable: it holds the title and the messages
\* of the session it was made from, no later saveChatSession,
\* deleteChatSession or createShareableLink changes what is stored under a
\* share id, and getSharedChat returns exactly that.
C20_SnapshotImmutable ==
    [][LET before == StoredShares(localStorage.shared)
           after == StoredShares(localStorage'.shared)
       IN /\ \A shareId \in 1..nextId :
                Lookup(before, shareId) # <<>> =>
                    TitleAndMessages(Lookup(after, shareId))
                        = TitleAndMessages(Lookup(before, shareId))
          /\ \A messages \in SharedLists :
                createShareableLink(TempSession(messages)) =>
                    TitleAndMessages(Lookup(after, nextId + 1))
                        = <<[id |-> nextId + 1,
                             title |-> generateChatTitle(messages),
                             messages |-> messages]>>
          /\ returned'.op = "getSharedChat" =>
                \E shareId \in 1..nextId :
                    returned'.value = Lookup(after, shareId)]_vars

\* C20 witness: two snapshots are stored, the session the first one was
\* made from has since been saved again and deleted, and getSharedChat has
\* returned the first snapshot, with the messages it was made from.
C20_Witness ==
    LET shares == StoredShares(localStorage.shared)
    IN /\ Len(shares) = 2
       /\ shares[1].id = 2
       /\ shares[1].messages = <<Message("m1", "user", <<"a">>)>>
       /\ localStorage.sessions = Stringify(<<>>)
       /\ clock = 3
       /\ returned.op = "getSharedChat"
       /\ returned.value = <<shares[1]>>

(***************************************************************************)
(* ChatService.generateChatTitle over message lists whose first user       *)
(* message is shorter than, as long as, and longer than the title limit.   *)
(***************************************************************************)

TitleContents ==
    {lead \o Repeat(char, n) \o tail :
        lead \in {<<>>, <<" ", "\n">>},
        char \in {"a", " "},
        n \in {0, 1, TitleLimit - 3, TitleLimit - 2, TitleLimit - 1, TitleLimit,
               TitleLimit + 1, TitleLimit + 30},
        tail \in {<<>>, <<"a">>, <<" ", "a">>}}

TitleLists ==
    {<<>>, <<Message("m1", "assistant", <<"a">>)>>}
        \cup {<<Message("m1", "user", content)>> : content \in TitleContents}
        \cup {<<Message("m1", "assistant", <<"a">>), Message("m2", "user", content),
                Message("m1", "user", <<"a">>)>> : content \in TitleContents}

\* A call of generateChatTitle: the list and the title it returned.
generateChatTitleCall(messages) ==
    /\ returned' = Returns("generateChatTitle",
                           <<[messages |-> messages, title |-> generateChatTitle(messages)]>>)
    /\ UNCHANGED <<reducerVars, ids, feed, panelVars, simVars, sseVars,
                   localStorage, clock, nextId, typingVars, appVars, linkVars>>

InitTitle ==
    /\ thinking = initialThinking
    /\ streaming = initialStreaming
    /\ last = NoAction
    /\ ids = {}
    /\ feed = NoFeed
    /\ PanelIdle
    /\ SimIdle
    /\ SseIdle
    /\ ServiceIdle
    /\ TypingIdle
    /\ AppIdle
    /\ LinkIdle

NextTitle == \E messages \in TitleLists : generateChatTitleCall(messages)

SpecTitle == InitTitle /\ [][NextTitle]_vars

EndsWith(str, suffix) ==
    /\ Len(str) >= Len(suffix)
    /\ SubSeq(str, Len(str) - Len(suffix) + 1, Len(str)) = suffix

\* C14: generateChatTitle returns 'New Chat' for a list without a user
\* message; otherwise the title has at most 53 characters, all of them
\* taken from the first 50 of the first user message (or it is 'New Chat'
\* or ends in the added '...'), and it ends in '...' when that message is
\* longer than 50 characters.
C14_TitleIsBounded ==
    returned.op = "generateChatTitle" =>
        LET messages == returned.value[1].messages
            title == returned.value[1].title
            users == {i \in DOMAIN messages : messages[i].type = "user"}
            content == messages[CHOOSE i \in users : \A j \in users : i <= j].content
            kept == IF Len(content) > TitleLimit
                    THEN SubSeq(title, 1, Len(title) - Len(Ellipsis))
                    ELSE title
        IN IF users = {} THEN title = NewChat
           ELSE /\ Len(title) <= TitleLimit + Len(Ellipsis)
                /\ Len(content) > TitleLimit => EndsWith(title, Ellipsis)
                /\ \/ title = NewChat
                   \/ \A i \in DOMAIN kept :
                         kept[i] \in {Slice(content, TitleLimit)[j] :
                                         j \in DOMAIN Slice(content, TitleLimit)}
                                     \cup {" "}

\* C14 witness: the first user message, which follows an assistant message,
\* has 80 characters, and the title is its first 50 followed by '...'.
C14_Witness ==
    /\ returned.op = "generateChatTitle"
    /\ Len(returned.value[1].messages) = 3
    /\ returned.value[1].messages[2].content = Repeat("a", TitleLimit + 30)
    /\ returned.value[1].title = Repeat("a", TitleLimit) \o Ellipsis

(***************************************************************************)
(* useIncrementalTyping: appendText, its rate-limiting timer, reset, flush *)
(***************************************************************************)

\* Bound: the longest text appended between two resets.
MaxTyped == 3

\* What clearTimeout(timeoutRef.current) leaves of the pending callbacks.
Cleared(state) ==
    IF state.handle /\ state.timer >= 0 THEN state.pending - 1 ELSE state.pending

\* A variant of Reschedule that sets no new timer when it cleared one.
Reschedule_DropsPending(state) ==
    [state EXCEPT !.isTyping = TRUE,
                  !.timer = IF state.handle THEN -1 ELSE MinInterval - state.since,
                  !.handle = TRUE,
                  !.pending = IF state.handle THEN Cleared(state) ELSE Cleared(state) + 1,
                  !.cancelled = state.timer >= 0]

\* A variant of Reschedule that sets the new timer without clearing the
\* pending one.
Reschedule_KeepsPending(state) ==
    [state EXCEPT !.isTyping = TRUE,
                  !.timer = MinInterval - state.since,
                  !.handle = TRUE,
                  !.pending = state.pending + 1,
                  !.cancelled = FALSE]

\* The rate-limited branch of appendText: the pending timer is cleared and
\* a new one is set for the rest of the interval.
Reschedule(state) ==
    [state EXCEPT !.isTyping = TRUE,
                  !.timer = MinInterval - state.since,
                  !.handle = TRUE,
                  !.pending = Cleared(state) + 1,
                  !.cancelled = state.timer >= 0]

appendText(newText) ==
    /\ Len(incremental.buffer) + Len(newText) <= MaxTyped
    /\ LET appended == [incremental EXCEPT !.buffer = @ \o newText,
                                           !.appended = @ \o newText,
                                           !.op = "appendText",
                                           !.cancelled = FALSE]
       IN incremental' =
              IF ~incremental.enabled
              THEN [appended EXCEPT !.displayedText = appended.buffer]
              ELSE IF incremental.since >= MinInterval
              THEN [appended EXCEPT !.displayedText = appended.buffer, !.since = 0]
              ELSE Reschedule(appended)
    /\ UNCHANGED <<reducerVars, ids, feed, panelVars, simVars, sseVars, serviceVars,
                   animation, appVars, linkVars>>

\* The callback of appendText's setTimeout.
typingTimerFires ==
    /\ incremental.timer = 0
    /\ incremental' = [incremental EXCEPT !.displayedText = incremental.buffer,
                                          !.isTyping = FALSE,
                                          !.since = 0,
                                          !.timer = -1,
                                          !.pending = @ - 1,
                                          !.op = "timer",
                                          !.cancelled = FALSE]
    /\ UNCHANGED <<reducerVars, ids, feed, panelVars, simVars, sseVars, serviceVars,
                   animation, appVars, linkVars>>

resetTyping ==
    /\ incremental' = [incremental EXCEPT !.displayedText = <<>>,
                                          !.isTyping = FALSE,
                                          !.buffer = <<>>,
                                          !.since = MinInterval,
                                          !.timer = -1,
                                          !.handle = FALSE,
                                          !.pending = Cleared(incremental),
                                          !.appended = <<>>,
                                          !.op = "reset",
                                          !.cancelled = incremental.timer >= 0]
    /\ UNCHANGED <<reducerVars, ids, feed, panelVars, simVars, sseVars, serviceVars,
                   animation, appVars, linkVars>>

\* A variant of flush that leaves the pending timer alone.
flush_KeepsTimer ==
    /\ incremental' = [incremental EXCEPT !.displayedText = incremental.buffer,
                                          !.isTyping = FALSE,
                                          !.op = "flush",
                                          !.cancelled = FALSE]
    /\ UNCHANGED <<reducerVars, ids, feed, panelVars, simVars, sseVars, serviceVars,
                   animation, appVars, linkVars>>

flush ==
    /\ incremental' = [incremental EXCEPT !.displayedText = incremental.buffer,
                                          !.isTyping = FALSE,
                                          !.timer = -1,
                                          !.handle = FALSE,
                                          !.pending = Cleared(incremental),
                                          !.op = "flush",
                                          !.cancelled = incremental.timer >= 0]
    /\ UNCHANGED <<reducerVars, ids, feed, panelVars, simVars, sseVars, serviceVars,
                   animation, appVars, linkVars>>

\* Time passes on the typing clock: no timer is overdue.
typingTick ==
    /\ incremental.timer # 0
    /\ incremental.timer > 0 \/ incremental.since < MinInterval
    /\ incremental' = [incremental EXCEPT
                           !.since = IF @ < MinInterval THEN @ + 1 ELSE @,
                           !.timer = IF @ > 0 THEN @ - 1 ELSE @,
                           !.op = "tick",
                           !.cancelled = FALSE]
    /\ UNCHANGED <<reducerVars, ids, feed, panelVars, simVars, sseVars, serviceVars,
                   animation, appVars, linkVars>>

InitIncremental ==
    /\ thinking = initialThinking
    /\ streaming = initialStreaming
    /\ last = NoAction
    /\ ids = {}
    /\ feed = NoFeed
    /\ PanelIdle
    /\ SimIdle
    /\ SseIdle
    /\ ServiceIdle
    /\ \E enabled \in BOOLEAN :
          incremental = [initialIncremental EXCEPT !.enabled = enabled]
    /\ animation = initialAnimation
    /\ AppIdle
    /\ LinkIdle

NextIncremental ==
    \/ \E newText \in StringsUpTo(MaxDeltaLen) : appendText(newText)
    \/ typingTimerFires
    \/ resetTyping
    \/ flush
    \/ typingTick

SpecIncremental == InitIncremental /\ [][NextIncremental]_vars

\* C15: with animations enabled, once every pending timer has fired the
\* displayed text is the concatenation of all text appended, in call order.
C15_AllTextDisplayed ==
    (incremental.enabled /\ incremental.timer = -1)
        => incremental.displayedText = incremental.appended

\* C15 witness: three characters were appended, the last of them within the
\* interval, the timer set for them has fired, and all three are displayed.
C15_Witness ==
    /\ incremental.enabled
    /\ incremental.op = "timer"
    /\ Len(incremental.appended) = MaxTyped
    /\ incremental.displayedText = incremental.appended

\* C25: the incremental typing renderer never has more than one setTimeout
\* callback pending.
C25_AtMostOneTimer == incremental.pending <= 1

\* C25 witness: an appendText within the interval has cleared the pending
\* timer and set a new one, which is the only one pending.
C25_Witness ==
    /\ incremental.op = "appendText"
    /\ incremental.cancelled
    /\ incremental.pending = 1
    /\ incremental.timer > 0

\* C16: flush makes the displayed text equal to the whole buffer at once,
\* sets isTyping to false, and leaves no timer pending.
C16_FlushShowsBuffer ==
    [][flush =>
          /\ incremental'.displayedText = incremental.buffer
          /\ incremental'.buffer = incremental.buffer
          /\ incremental'.isTyping = FALSE
          /\ incremental'.timer = -1]_vars

\* C16 witness: flush has cleared a pending timer and shows text that was
\* still hidden.
C16_Witness ==
    /\ incremental.op = "flush"
    /\ incremental.cancelled
    /\ Len(incremental.displayedText) >= 2

(***************************************************************************)
(* useTypingAnimation: the effect on targetText, startTyping and its frame *)
(* loop, stopTyping, reset and skipToEnd. One tick of its clock reveals    *)
(* one character (1000 / speed ms). A run lasts from startTyping to the    *)
(* next reset or change of targetText; completions counts its onComplete   *)
(* calls up to two, which stands for two or more.                          *)
(***************************************************************************)

\* Bound: how many frame loops may be pending at once.
MaxLoops == 2

\* onComplete is called once more in the current run.
Completed(count) == IF count < 2 THEN count + 1 ELSE count

\* cancelAnimationFrame(rafRef.current): the loop rafRef names, if it is
\* still pending, is gone; the loops behind it move up.
CancelFrame(state) ==
    IF state.raf \in DOMAIN state.loops
    THEN [state EXCEPT
             !.loops = SubSeq(@, 1, state.raf - 1) \o SubSeq(@, state.raf + 1, Len(@)),
             !.raf = 0]
    ELSE [state EXCEPT !.raf = 0]

\* The body of stopTyping.
StopTyping(state) ==
    [CancelFrame(state) EXCEPT !.timeout = FALSE, !.isTyping = FALSE]

\* The body of reset.
ResetAnimation(state) ==
    [StopTyping(state) EXCEPT !.displayedText = <<>>, !.currentIndex = 0]

\* targetText changes: the cleanup of the effect clears the 50 ms timer,
\* and for a text that is not empty the effect resets and sets the timer.
setTargetText(text) ==
    /\ text # animation.targetText
    /\ animation' =
           IF text = <<>>
           THEN [animation EXCEPT !.targetText = text, !.timeout = FALSE,
                                  !.completions = 0]
           ELSE [ResetAnimation(animation) EXCEPT !.targetText = text,
                                                  !.timeout = TRUE,
                                                  !.completions = 0]
    /\ UNCHANGED <<reducerVars, ids, feed, panelVars, simVars, sseVars, serviceVars,
                   incremental, appVars, linkVars>>

\* The body of startTyping, which begins a run.
StartTyping(state) ==
    IF ~state.enabled \/ state.targetText = <<>>
    THEN [state EXCEPT !.displayedText = state.targetText,
                       !.isTyping = FALSE,
                       !.currentIndex = Len(state.targetText),
                       !.completions = 1]
    ELSE [state EXCEPT !.isTyping = TRUE,
                       !.currentIndex = 0,
                       !.displayedText = <<>>,
                       !.elapsed = 0,
                       !.loops = Append(@, state.targetText),
                       !.raf = Len(state.loops) + 1,
                       !.completions = 0]

\* startTyping called by the component that uses the hook.
startTyping ==
    /\ Len(animation.loops) < MaxLoops
    /\ animation' = StartTyping(animation)
    /\ UNCHANGED <<reducerVars, ids, feed, panelVars, simVars, sseVars, serviceVars,
                   incremental, appVars, linkVars>>

\* The 50 ms timer of the effect calls startTyping.
startTimerFires ==
    /\ animation.timeout
    /\ Len(animation.loops) < MaxLoops
    /\ animation' = [StartTyping(animation) EXCEPT !.timeout = FALSE]
    /\ UNCHANGED <<reducerVars, ids, feed, panelVars, simVars, sseVars, serviceVars,
                   incremental, appVars, linkVars>>

\* A frame runs typeNextChar for loop i, whose closure holds the targetText
\* the loop was started with.
typeNextChar(i) ==
    /\ i \in DOMAIN animation.loops
    /\ LET text == animation.loops[i]
           targetIndex == Min(animation.elapsed, Len(text))
           rest == SubSeq(animation.loops, 1, i - 1)
                       \o SubSeq(animation.loops, i + 1, Len(animation.loops))
           raf == IF animation.raf > i THEN animation.raf - 1
                  ELSE IF animation.raf = i THEN 0 ELSE animation.raf
       IN animation' =
              IF targetIndex >= Len(text)
              THEN [animation EXCEPT !.displayedText = text,
                                     !.isTyping = FALSE,
                                     !.currentIndex = Len(text),
                                     !.loops = rest,
                                     !.raf = raf,
                                     !.completions = Completed(@)]
              ELSE [animation EXCEPT !.displayedText = SubSeq(text, 1, targetIndex),
                                     !.currentIndex = targetIndex,
                                     !.loops = Append(rest, text),
                                     !.raf = Len(rest) + 1]
    /\ UNCHANGED <<reducerVars, ids, feed, panelVars, simVars, sseVars, serviceVars,
                   incremental, appVars, linkVars>>

stopTyping ==
    /\ animation' = StopTyping(animation)
    /\ UNCHANGED <<reducerVars, ids, feed, panelVars, simVars, sseVars, serviceVars,
                   incremental, appVars, linkVars>>

resetAnimation ==
    /\ animation' = [ResetAnimation(animation) EXCEPT !.completions = 0]
    /\ UNCHANGED <<reducerVars, ids, feed, panelVars, simVars, sseVars, serviceVars,
                   incremental, appVars, linkVars>>

skipToEnd ==
    /\ animation' = [StopTyping(animation) EXCEPT
                         !.displayedText = animation.targetText,
                         !.currentIndex = Len(animation.targetText),
                         !.completions = Completed(@)]
    /\ UNCHANGED <<reducerVars, ids, feed, panelVars, simVars, sseVars, serviceVars,
                   incremental, appVars, linkVars>>

\* Time passes on the animation clock while a frame loop is pending.
animationTick ==
    /\ animation.loops # <<>>
    /\ animation.elapsed < MaxStrLen
    /\ animation' = [animation EXCEPT !.elapsed = @ + 1]
    /\ UNCHANGED <<reducerVars, ids, feed, panelVars, simVars, sseVars, serviceVars,
                   incremental, appVars, linkVars>>

\* The hook as mounted with some targetText: the effect has run.
InitAnimation ==
    /\ thinking = initialThinking
    /\ streaming = initialStreaming
    /\ last = NoAction
    /\ ids = {}
    /\ feed = NoFeed
    /\ PanelIdle
    /\ SimIdle
    /\ SseIdle
    /\ ServiceIdle
    /\ incremental = initialIncremental
    /\ AppIdle
    /\ LinkIdle
    /\ \E enabled \in BOOLEAN, text \in Strings :
          animation = [initialAnimation EXCEPT !.enabled = enabled,
                                               !.targetText = text,
                                               !.timeout = text # <<>>]

NextAnimation ==
    \/ \E text \in Strings : setTargetText(text)
    \/ startTyping
    \/ startTimerFires
    \/ \E i \in DOMAIN animation.loops : typeNextChar(i)
    \/ stopTyping
    \/ resetAnimation
    \/ skipToEnd
    \/ animationTick

SpecAnimation == InitAnimation /\ [][NextAnimation]_vars

\* C17: in one run of the animation of a text (animations on, the text not
\* empty) onComplete is invoked at most once: not a second time by a later
\* frame or by skipToEnd.
C17_CompletesOnce ==
    (animation.enabled /\ animation.targetText # <<>>) => animation.completions <= 1

(***************************************************************************)
(* SEFGHApp: sendMessage, its two timers and cancelMessage, called from    *)
(* ChatPanel. calls[k] is the k-th sendMessage call: where the async       *)
(* function stands (awaiting fetch, awaiting response.json(), returned),   *)
(* whether its AbortController is aborted (and whether by cancelMessage),   *)
(* the assistant message it has appended to the messages, if any, and the  *)
(* time left to its two timers (-1: cleared or run). One tick of the clock is 5 s; the 500 ms   *)
(* of handleSubmit's timer pass within a tick.                             *)
(***************************************************************************)

\* setTimeout(..., 5000) of sendMessage, in ticks.
CancelDelay == 1

\* setTimeout(..., 20000) of sendMessage, in ticks.
TimeoutDelay == 4

\* Bound: how many messages one behaviour sends.
MaxCalls == 2

NotLoading == [isLoading |-> FALSE, canCancelLoading |-> FALSE]

\* ChatPanel.handleSubmit as SEFGHApp sees it: while isLoading is false a
\* submit sets the timer that calls onSendMessage 500 ms later.
appSubmit ==
    /\ ~appState.isLoading
    /\ pendingSends + Len(calls) < MaxCalls
    /\ pendingSends' = pendingSends + 1
    /\ UNCHANGED <<reducerVars, ids, feed, panelVars, simVars, sseVars, serviceVars,
                   typingVars, appState, calls, currentAbortControllerRef, linkVars>>

\* handleSubmit's timer calls sendMessage: up to its await fetch.
sendMessage ==
    /\ pendingSends > 0
    /\ pendingSends' = pendingSends - 1
    /\ appState' = [isLoading |-> TRUE, canCancelLoading |-> FALSE]
    /\ calls' = Append(calls, [at |-> "fetch", aborted |-> FALSE,
                               cancelled |-> FALSE, reply |-> "none",
                               cancelTimer |-> CancelDelay,
                               timeoutTimer |-> TimeoutDelay])
    /\ currentAbortControllerRef' = Len(calls) + 1
    /\ UNCHANGED <<reducerVars, ids, feed, panelVars, simVars, sseVars, serviceVars,
                   typingVars, linkVars>>

\* The rejection of an aborted fetch is handled before any later task.
NoAbortedCall ==
    \A k \in DOMAIN calls : calls[k].at = "fetch" => ~calls[k].aborted

\* The 5 s timer of call k: cancelling becomes available.
enableCancelFires(k) ==
    /\ k \in DOMAIN calls
    /\ calls[k].cancelTimer = 0
    /\ NoAbortedCall
    /\ appState' = [appState EXCEPT !.canCancelLoading = TRUE]
    /\ calls' = [calls EXCEPT ![k].cancelTimer = -1]
    /\ UNCHANGED <<reducerVars, ids, feed, panelVars, simVars, sseVars, serviceVars,
                   typingVars, currentAbortControllerRef, pendingSends, linkVars>>

\* The 20 s timer of call k aborts its request.
requestTimeoutFires(k) ==
    /\ k \in DOMAIN calls
    /\ calls[k].timeoutTimer = 0
    /\ NoAbortedCall
    /\ calls' = [calls EXCEPT ![k].timeoutTimer = -1, ![k].aborted = TRUE]
    /\ UNCHANGED <<reducerVars, ids, feed, panelVars, simVars, sseVars, serviceVars,
                   typingVars, appState, currentAbortControllerRef, pendingSends, linkVars>>

\* clearTimeout(timeoutId); clearTimeout(cancelTimeoutId)
ClearTimers(call) == [call EXCEPT !.cancelTimer = -1, !.timeoutTimer = -1]

\* What await fetch or await response.json() can throw, and the content of
\* the assistant message the catch block appends for it.
Errors == {"AbortError", "Failed to fetch", "other"}

ErrorReply(error) ==
    CASE error = "AbortError" -> "Request timed out"
      [] error = "Failed to fetch" -> "Unable to connect"
      [] error = "other" -> "Sorry, I encountered an error"

\* The catch block of sendMessage.
Caught(k, error) ==
    /\ calls' = [calls EXCEPT ![k] = [ClearTimers(@) EXCEPT !.at = "returned",
                                                            !.reply = ErrorReply(error)]]
    /\ currentAbortControllerRef' = 0
    /\ appState' = NotLoading

\* await fetch returns a response: the timers are cleared; a response that
\* is not ok throws.
responseArrives(k, ok) ==
    /\ k \in DOMAIN calls
    /\ calls[k].at = "fetch"
    /\ NoAbortedCall
    /\ IF ok
       THEN /\ calls' = [calls EXCEPT ![k] = [ClearTimers(@) EXCEPT !.at = "json"]]
            /\ currentAbortControllerRef' = 0
            /\ UNCHANGED appState
       ELSE Caught(k, "other")
    /\ UNCHANGED <<reducerVars, ids, feed, panelVars, simVars, sseVars, serviceVars,
                   typingVars, pendingSends, linkVars>>

\* await fetch or await response.json() rejects: the network fails, or the
\* body is no JSON.
requestFails(k, error) ==
    /\ k \in DOMAIN calls
    /\ calls[k].at \in {"fetch", "json"}
    /\ NoAbortedCall
    /\ Caught(k, error)
    /\ UNCHANGED <<reducerVars, ids, feed, panelVars, simVars, sseVars, serviceVars,
                   typingVars, pendingSends, linkVars>>

\* The fetch of an aborted call rejects with an AbortError.
requestAborted(k) ==
    /\ k \in DOMAIN calls
    /\ calls[k].at = "fetch"
    /\ calls[k].aborted
    /\ Caught(k, "AbortError")
    /\ UNCHANGED <<reducerVars, ids, feed, panelVars, simVars, sseVars, serviceVars,
                   typingVars, pendingSends, linkVars>>

\* await response.json() returns: the answer is shown.
bodyParsed(k) ==
    /\ k \in DOMAIN calls
    /\ calls[k].at = "json"
    /\ NoAbortedCall
    /\ calls' = [calls EXCEPT ![k].at = "returned", ![k].reply = "answer"]
    /\ appState' = NotLoading
    /\ UNCHANGED <<reducerVars, ids, feed, panelVars, simVars, sseVars, serviceVars,
                   typingVars, currentAbortControllerRef, pendingSends, linkVars>>

\* The cancel button of ChatPanel, shown while isLoading and
\* canCancelLoading, calls cancelMessage.
cancelRequest ==
    /\ appState.isLoading
    /\ appState.canCancelLoading
    /\ calls' = IF currentAbortControllerRef # 0
                THEN [calls EXCEPT ![currentAbortControllerRef].aborted = TRUE,
                                   ![currentAbortControllerRef].cancelled = TRUE]
                ELSE calls
    /\ currentAbortControllerRef' = 0
    /\ appState' = NotLoading
    /\ UNCHANGED <<reducerVars, ids, feed, panelVars, simVars, sseVars, serviceVars,
                   typingVars, pendingSends, linkVars>>

\* 5 s pass: no timer is overdue and no call waits to be made.
appTick ==
    /\ pendingSends = 0
    /\ NoAbortedCall
    /\ \A k \in DOMAIN calls : calls[k].cancelTimer # 0 /\ calls[k].timeoutTimer # 0
    /\ \E k \in DOMAIN calls : calls[k].cancelTimer > 0 \/ calls[k].timeoutTimer > 0
    /\ calls' = [k \in DOMAIN calls |->
                    [calls[k] EXCEPT !.cancelTimer = IF @ > 0 THEN @ - 1 ELSE @,
                                     !.timeoutTimer = IF @ > 0 THEN @ - 1 ELSE @]]
    /\ UNCHANGED <<reducerVars, ids, feed, panelVars, simVars, sseVars, serviceVars,
                   typingVars, appState, currentAbortControllerRef, pendingSends, linkVars>>

InitApp ==
    /\ thinking = initialThinking
    /\ streaming = initialStreaming
    /\ last = NoAction
    /\ ids = {}
    /\ feed = NoFeed
    /\ PanelIdle
    /\ SimIdle
    /\ SseIdle
    /\ ServiceIdle
    /\ TypingIdle
    /\ AppIdle
    /\ LinkIdle

NextApp ==
    \/ appSubmit
    \/ sendMessage
    \/ \E k \in DOMAIN calls : enableCancelFires(k)
    \/ \E k \in DOMAIN calls : requestTimeoutFires(k)
    \/ \E k \in DOMAIN calls, ok \in BOOLEAN : responseArrives(k, ok)
    \/ \E k \in DOMAIN calls, error \in Errors \ {"AbortError"} : requestFails(k, error)
    \/ \E k \in DOMAIN calls : requestAborted(k)
    \/ \E k \in DOMAIN calls : bodyParsed(k)
    \/ cancelRequest
    \/ appTick

SpecApp == InitApp /\ [][NextApp]_vars

MaxHandlers == 3

\* Bound: the largest max_views of a link.
MaxViews == 2

Respond(k, status) == [handlers EXCEPT ![k].at = "done", ![k].status = status]

\* A request for the link arrives: the handler runs up to its select.
requestArrives ==
    /\ Len(handlers) < MaxHandlers
    /\ handlers' = Append(handlers, [at |-> "select", views |-> 0, status |-> 0])
    /\ UNCHANGED <<reducerVars, ids, feed, panelVars, simVars, sseVars, serviceVars,
                   typingVars, appVars, link>>

\* The select returns the row as it is now; the handler checks it and, when
\* it passes, goes on to the insert into link_analytics.
selectReturns(k) ==
    /\ k \in DOMAIN handlers
    /\ handlers[k].at = "select"
    /\ handlers' =
           IF link.status # "active" THEN Respond(k, 404)
           ELSE IF link.expired THEN Respond(k, 410)
           ELSE IF link.max_views # 0 /\ link.current_views >= link.max_views
           THEN Respond(k, 410)
           ELSE [handlers EXCEPT ![k].at = "insert", ![k].views = link.current_views]
    /\ UNCHANGED <<reducerVars, ids, feed, panelVars, simVars, sseVars, serviceVars,
                   typingVars, appVars, link>>

\* The insert into link_analytics is done; the handler calls
\* increment_link_views.
insertReturns(k) ==
    /\ k \in DOMAIN handlers
    /\ handlers[k].at = "insert"
    /\ link' = [link EXCEPT !.analytics = @ + 1]
    /\ handlers' = [handlers EXCEPT ![k].at = "rpc"]
    /\ UNCHANGED <<reducerVars, ids, feed, panelVars, simVars, sseVars, serviceVars,
                   typingVars, appVars>>

\* increment_link_views: UPDATE ... SET current_views = current_views + 1
\* WHERE file_id = link_file_id AND status = 'active'.
increment_link_views(row) ==
    IF row.status = "active" THEN [row EXCEPT !.current_views = @ + 1] ELSE row

\* The database runs the update of the handler's rpc call.
rpcRuns(k) ==
    /\ k \in DOMAIN handlers
    /\ handlers[k].at = "rpc"
    /\ link' = increment_link_views(link)
    /\ handlers' = [handlers EXCEPT ![k].at = "respond"]
    /\ UNCHANGED <<reducerVars, ids, feed, panelVars, simVars, sseVars, serviceVars,
                   typingVars, appVars>>

\* The rpc call returns to the handler, which responds with the content of
\* the row it selected.
rpcReturns(k) ==
    /\ k \in DOMAIN handlers
    /\ handlers[k].at = "respond"
    /\ handlers' = Respond(k, 200)
    /\ UNCHANGED <<reducerVars, ids, feed, panelVars, simVars, sseVars, serviceVars,
                   typingVars, appVars, link>>

\* Time passes expires_at.
linkExpires ==
    /\ ~link.expired
    /\ link' = [link EXCEPT !.expired = TRUE]
    /\ UNCHANGED <<reducerVars, ids, feed, panelVars, simVars, sseVars, serviceVars,
                   typingVars, appVars, handlers>>

InitLink ==
    /\ thinking = initialThinking
    /\ streaming = initialStreaming
    /\ last = NoAction
    /\ ids = {}
    /\ feed = NoFeed
    /\ PanelIdle
    /\ SimIdle
    /\ SseIdle
    /\ ServiceIdle
    /\ TypingIdle
    /\ AppIdle
    /\ \E status \in {"active", "inactive"}, max_views \in 0..MaxViews :
          link = [status |-> status, expired |-> FALSE, max_views |-> max_views,
                  current_views |-> 0, analytics |-> 0]
    /\ handlers = <<>>

NextLink ==
    \/ requestArrives
    \/ \E k \in DOMAIN handlers : selectReturns(k)
    \/ \E k \in DOMAIN handlers : insertReturns(k)
    \/ \E k \in DOMAIN handlers : rpcRuns(k)
    \/ \E k \in DOMAIN handlers : rpcReturns(k)
    \/ linkExpires

SpecLink == InitLink /\ [][NextLink]_vars

Served == {k \in DOMAIN handlers : handlers[k].status = 200}

\* C29: a link with max_views = N, N >= 1, is served with success to at
\* most N requests.
C29_ViewLimitHolds == link.max_views >= 1 => Cardinality(Served) <= link.max_views

(***************************************************************************)
(* Properties of the thinking timeline (SpecThinking)                      *)
(***************************************************************************)

\* C4: if thinking.activeStep is set, thinking.steps holds a step with that id
\* whose status is 'active'.
C4_ActiveStepIsActive ==
    thinking.activeStep # Undefined => thinking.activeStep \in ActiveIds(thinking.steps)

\* C6: resetThinking yields every step 'pending' with its default label and no
\* startedAt/endedAt, and no activeStep, whatever the state it is called in.
C6_ResetYieldsPending ==
    last.type = "RESET_THINKING" =>
        /\ thinking.activeStep = Undefined
        /\ Len(thinking.steps) = Len(DefaultStepOrder)
        /\ \A i \in DOMAIN thinking.steps :
              /\ thinking.steps[i].id = DefaultStepOrder[i]
              /\ thinking.steps[i].status = "pending"
              /\ thinking.steps[i].label = DefaultLabel(DefaultStepOrder[i])
              /\ thinking.steps[i].startedAt = Undefined
              /\ thinking.steps[i].endedAt = Undefined

\* C6 witness: a reset has just cleared a timeline that had an active step.
C6_Witness ==
    /\ last.type = "RESET_THINKING"
    /\ last.found # Undefined

\* C7: completeStep(id) for a step of the timeline sets that step 'done'
\* whatever its prior status and leaves every other step's status and
\* activeStep as they were.
C7_CompleteStepFrame ==
    [][\A id \in TimelineIds :
          completeStep(id) =>
              /\ StatusOf(thinking'.steps, id) = "done"
              /\ \A other \in TimelineIds \ {id} :
                    StatusOf(thinking'.steps, other) = StatusOf(thinking.steps, other)
              /\ thinking'.activeStep = thinking.activeStep]_vars

\* C7 witness: completeStep has acted on a step that was still pending while
\* another step was the active one.
C7_Witness ==
    /\ last.type = "COMPLETE_STEP"
    /\ last.found = "pending"
    /\ StatusOf(thinking.steps, last.id) = "done"
    /\ thinking.activeStep \in ActiveIds(thinking.steps)

\* C8: for every id of the step enum, startStep(id) leaves the step with that
\* id 'active' with startedAt recorded, activeStep = id, and every other
\* step's status unchanged.
C8_StartStepActivates ==
    [][\A id \in ThoughtStepId : \A label \in Labels :
          startStep(id, label) =>
              /\ \E i \in DOMAIN thinking'.steps :
                    /\ thinking'.steps[i].id = id
                    /\ thinking'.steps[i].status = "active"
                    /\ thinking'.steps[i].startedAt # Undefined
              /\ thinking'.activeStep = id
              /\ \A other \in TimelineIds \ {id} :
                    StatusOf(thinking'.steps, other) = StatusOf(thinking.steps, other)]_vars

=============================================================================
